---- MODULE Spec2Model ----
(***************************************************************************)
(* A model of the new-release-wall repository: the release resolvers       *)
(* (movie_tracker.py, movie_tracker_enhanced.py, new_release_wall.py), the *)
(* inclusion classifier (new_release_wall_balanced.py), the two tracking   *)
(* stores with their load / save cycle, and the site generator's batch     *)
(* loop.                                                                   *)
(*                                                                         *)
(* Calendar dates are ISO strings in the code ("2024-01-05"), compared     *)
(* with < and min as strings.  ISO dates of equal length order as the      *)
(* days they denote, so a date is modelled by a day number 1..MaxDay, the  *)
(* empty string by EmptyStr (smaller than every date, as in Python) and    *)
(* Python's None by None.  The [:10] truncation keeps the day part; the    *)
(* model's dates are those first ten characters.                           *)
(***************************************************************************)
EXTENDS Integers, Sequences, FiniteSets, TLC

VARIABLES
    payload,        \* resolver: the /release_dates response being resolved
    resolverOut,    \* resolver: which resolver ran and what it returned
    movie,          \* classifier: the discovered catalog record
    omdb,           \* classifier: what the ratings API answers for its title
    verdict,        \* classifier: the decision taken for the record
    impl,           \* tracker: "enhanced" (EnhancedMovieTracker) or "basic" (MovieTracker)
    cmd,            \* tracker: the command of the running process
    pc,             \* tracker: the running process's position, "off" when none runs
    db,             \* tracker: self.db of the running process
    disk,           \* tracker: the database file
    today,          \* tracker: the calendar day
    exitStatus,     \* tracker: how the last process ended
    everResolved,   \* tracker: ids resolved in some completely written snapshot
    failedLookups,  \* tracker: the re-check lookups that failed in this process
    wallArgs,       \* wall: the command line of new_release_wall.main
    wallPc,         \* wall: the request main is at, or how the run ended
    wallQueue,      \* wall: the deduplicated titles not yet enriched
    wallCurrent,    \* wall: what the lookups of the current title returned so far
    wallAttempt,    \* wall: failed attempts of the current request (safe_json_get's i)
    wallItems,      \* wall: the items collected, then written
    httpFn,         \* http: the retry wrapper called, safe_json_get or TMDB._req
    httpPc,         \* http: "idle", "running", or how the call ended
    httpAttempt,    \* http: attempts of the call that have failed
    httpSeen,       \* http: what each attempt of the call met, in order
    httpError,      \* http: the exception the call raised to its caller
    httpSleeps,     \* http: the sleeps of the call so far, in tenths of a second
    startEntry,     \* start: the entry point being started
    startConfig,    \* start: config.yaml, a missing file or the mapping it holds
    startEnv,       \* start: the process environment
    startArg,       \* start: the bearer argument given to TMDB()
    startPc,        \* start: "start", "ready", "provider_map", "running" or "aborted"
    startKey,       \* start: the catalog key the entry point goes on with
    startRequests,  \* start: network requests issued since the start
    curated,        \* curator: curated_selections.json, the mapping from title id to decision
    curatorCatalog, \* curator: the titles load_movies returns, and whether their text holds the word "x"
    dedupeFn,       \* dedupe: the function whose deduplication loop runs
    dedupeIn,       \* dedupe: the discovered records the loop has not reached yet
    dedupeSeen,     \* dedupe: `seen` / `seen_ids`
    dedupeDone,     \* dedupe: the records the loop has passed, each kept or dropped
    requestPc,      \* request: where each of the two concurrent curate requests is
    requestAction,  \* request: the action word of each request
    requestCur,     \* request: `cur` of each request
    curatedFile,    \* request: the curated-selection file the requests share
    discoverFn,     \* discover: the function whose page loop runs
    discoverMaxPages,\* discover: `max_pages` (the cap of 500 in bootstrap_database)
    discoverPage,   \* discover: `page`
    discoverTotalPages,\* discover: `total_pages` of bootstrap_database
    discoverRequests,\* discover: the page requests made so far
    discoverPc      \* discover: the loop runs, has returned its results, or has raised

resolverVars == <<payload, resolverOut>>
classifierVars == <<movie, omdb, verdict>>
trackerVars == <<impl, cmd, pc, db, disk, today, exitStatus, everResolved, failedLookups>>
wallVars == <<wallArgs, wallPc, wallQueue, wallCurrent, wallAttempt, wallItems>>
httpVars == <<httpFn, httpPc, httpAttempt, httpSeen, httpError, httpSleeps>>
startVars == <<startEntry, startConfig, startEnv, startArg, startPc, startKey, startRequests>>
curatorVars == <<curated, curatorCatalog>>
dedupeVars == <<dedupeFn, dedupeIn, dedupeSeen, dedupeDone>>
requestVars == <<requestPc, requestAction, requestCur, curatedFile>>
discoverVars == <<discoverFn, discoverMaxPages, discoverPage, discoverTotalPages, discoverRequests, discoverPc>>
notResolverVars == <<classifierVars, trackerVars, wallVars, httpVars, startVars, curatorVars, dedupeVars, requestVars, discoverVars>>
notClassifierVars == <<resolverVars, trackerVars, wallVars, httpVars, startVars, curatorVars, dedupeVars, requestVars, discoverVars>>
notTrackerVars == <<resolverVars, classifierVars, wallVars, httpVars, startVars, curatorVars, dedupeVars, requestVars, discoverVars>>
notWallVars == <<resolverVars, classifierVars, trackerVars, httpVars, startVars, curatorVars, dedupeVars, requestVars, discoverVars>>
notHttpVars == <<resolverVars, classifierVars, trackerVars, wallVars, startVars, curatorVars, dedupeVars, requestVars, discoverVars>>
notStartVars == <<resolverVars, classifierVars, trackerVars, wallVars, httpVars, curatorVars, dedupeVars, requestVars, discoverVars>>
notCuratorVars == <<resolverVars, classifierVars, trackerVars, wallVars, httpVars, startVars, dedupeVars, requestVars, discoverVars>>
notDedupeVars == <<resolverVars, classifierVars, trackerVars, wallVars, httpVars, startVars, curatorVars, requestVars, discoverVars>>
notRequestVars == <<resolverVars, classifierVars, trackerVars, wallVars, httpVars, startVars, curatorVars, dedupeVars, discoverVars>>
notDiscoverVars == <<resolverVars, classifierVars, trackerVars, wallVars, httpVars, startVars, curatorVars, dedupeVars, requestVars>>
vars == <<resolverVars, classifierVars, trackerVars, wallVars, httpVars, startVars, curatorVars, dedupeVars, requestVars, discoverVars>>

----------------------------------------------------------------------------
\* Bounds of the model.
MaxDay == 2             \* calendar days 1..MaxDay
MaxReleases == 2        \* release records in one /release_dates response

\* Python values.
None == -1
EmptyStr == 0
\* `not v` for a value that is None or a string
Falsy(v) == v = None \/ v = EmptyStr

Days == 1..MaxDay
DateStrings == {EmptyStr} \cup Days

\* The external API's release types: 1 premiere, 2 limited, 3 theatrical,
\* 4 digital, 6 TV.  (Type 5, physical, is read by no resolver.)
ReleaseTypes == {1, 2, 3, 4, 6}
Countries == {"US", "GB"}

MinOf(S) == CHOOSE x \in S : \A y \in S : x <= y
Range(s) == {s[i] : i \in 1..Len(s)}

----------------------------------------------------------------------------
\* The /movie/{id}/release_dates payloads: a response without 'results' (an
\* error body), or up to two country entries holding up to MaxReleases
\* release records between them.
Releases == [type : ReleaseTypes, release_date : DateStrings]
NoResults == [hasResults |-> FALSE, results |-> <<>>]
EmptyResults == [hasResults |-> TRUE, results |-> <<>>]

RECURSIVE Flatten(_)
Flatten(entries) ==
    IF entries = <<>> THEN <<>>
    ELSE Head(entries).release_dates \o Flatten(Tail(entries))

----------------------------------------------------------------------------
\* EnhancedMovieTracker.get_release_info: all countries pooled, types 1-4.

\* `if date and release_type in [1, 2, 3, 4]`
Collected(release) ==
    release.release_date # EmptyStr /\ release.type \in {1, 2, 3, 4}

\* all_dates[release_type], in payload order
AllDates(data, release_type) ==
    LET kept == SelectSeq(Flatten(data.results),
                          LAMBDA r : Collected(r) /\ r.type = release_type)
    IN  [i \in 1..Len(kept) |-> kept[i].release_date]

\* result['release_types_found'], in order of first appearance
RECURSIVE ReleaseTypesFound(_, _)
ReleaseTypesFound(releases, found) ==
    IF releases = <<>> THEN found
    ELSE LET r == Head(releases)
         IN  ReleaseTypesFound(Tail(releases),
                 IF Collected(r) /\ r.type \notin Range(found)
                 THEN Append(found, r.type) ELSE found)

\* `earliest = min(dates)` for one type, None when the type has no date
EarliestOfType(dates) ==
    IF dates = <<>> THEN None ELSE MinOf(Range(dates))

\* a faulty variant, for comparison: the earliest release read from the digital dates alone
EarliestRelease_DigitalOnly(data) ==
    EarliestOfType(AllDates(data, 4))

\* `all_release_dates = [d for dates in all_dates.values() for d in dates]`
EarliestRelease(data) ==
    LET all_release_dates ==
            AllDates(data, 1) \o AllDates(data, 2) \o AllDates(data, 3) \o AllDates(data, 4)
    IN  IF all_release_dates = <<>> THEN None ELSE MinOf(Range(all_release_dates))

EnhancedDefault ==
    [premiere_date |-> None, limited_date |-> None, theatrical_date |-> None,
     digital_date |-> None, earliest_release |-> None, has_digital |-> FALSE,
     release_types_found |-> <<>>]

GetReleaseInfoEnhanced(data) ==
    IF ~data.hasResults THEN EnhancedDefault
    ELSE LET digital == EarliestOfType(AllDates(data, 4))
         IN  [premiere_date |-> EarliestOfType(AllDates(data, 1)),
              limited_date |-> EarliestOfType(AllDates(data, 2)),
              theatrical_date |-> EarliestOfType(AllDates(data, 3)),
              digital_date |-> digital,
              earliest_release |-> EarliestRelease(data),
              has_digital |-> ~Falsy(digital),
              release_types_found |-> ReleaseTypesFound(Flatten(data.results), <<>>)]

----------------------------------------------------------------------------
\* MovieTracker.get_release_info: the first US entry only, types 3 and 4.

\* a faulty variant, for comparison: the entry of any country is taken for the US entry
IsUSEntry_AnyCountry(country_data) == TRUE

\* `if country_data['iso_3166_1'] == 'US'`
IsUSEntry(country_data) == country_data.iso_3166_1 = "US"

BasicDefault ==
    [theatrical_date |-> None, digital_date |-> None, has_digital |-> FALSE]

\* the loop over one country's release_dates
RECURSIVE BasicScan(_, _)
BasicScan(releases, result) ==
    IF releases = <<>> THEN result
    ELSE LET release_type == Head(releases).type
             date == Head(releases).release_date
             next ==
                 IF release_type = 3
                 THEN IF Falsy(result.theatrical_date) \/ date < result.theatrical_date
                      THEN [result EXCEPT !.theatrical_date = date]
                      ELSE result
                 ELSE IF release_type = 4
                 THEN [(IF Falsy(result.digital_date) \/ date < result.digital_date
                        THEN [result EXCEPT !.digital_date = date]
                        ELSE result)
                       EXCEPT !.has_digital = TRUE]
                 ELSE result
         IN  BasicScan(Tail(releases), next)

\* the loop over data['results'], left at the first US entry (`break`)
RECURSIVE BasicCountries(_)
BasicCountries(results) ==
    IF results = <<>> THEN BasicDefault
    ELSE IF IsUSEntry(Head(results))
         THEN BasicScan(Head(results).release_dates, BasicDefault)
         ELSE BasicCountries(Tail(results))

GetReleaseInfoBasic(data) ==
    IF ~data.hasResults THEN BasicDefault ELSE BasicCountries(data.results)

----------------------------------------------------------------------------
\* new_release_wall.get_us_digital_date: the requested region, types 4 and 6.

\* a faulty variant, for comparison: the entry of any country is taken for the region's
IsRegionEntry_AnyCountry(rec, region) == TRUE

\* `if rec.get("iso_3166_1") != region: continue`
IsRegionEntry(rec, region) == rec.iso_3166_1 = region

\* a faulty variant, for comparison: the TV records (type 6) are left out
Candidates_DigitalOnly(rec) ==
    LET kept == SelectSeq(rec.release_dates,
                          LAMBDA d : d.type \in {4} /\ ~Falsy(d.release_date))
    IN  [i \in 1..Len(kept) |-> kept[i].release_date]

\* `candidates`: the non-empty dates of the entry's type-4 and type-6 records
Candidates(rec) ==
    LET kept == SelectSeq(rec.release_dates,
                          LAMBDA d : d.type \in {4, 6} /\ ~Falsy(d.release_date))
    IN  [i \in 1..Len(kept) |-> kept[i].release_date]

RECURSIVE UsDigitalScan(_, _)
UsDigitalScan(results, region) ==
    IF results = <<>> THEN None
    ELSE IF IsRegionEntry(Head(results), region) /\ Candidates(Head(results)) # <<>>
         THEN MinOf(Range(Candidates(Head(results))))
         ELSE UsDigitalScan(Tail(results), region)

GetUsDigitalDate(data, region) == UsDigitalScan(data.results, region)

----------------------------------------------------------------------------
\* The resolvers run on every payload.
NotRun == [fn |-> "none"]

RECURSIVE TotalReleases(_)
TotalReleases(results) ==
    IF results = <<>> THEN 0
    ELSE Len(Head(results).release_dates) + TotalReleases(Tail(results))


\* the response grows by one country entry
ReceiveEntry ==
    /\ resolverOut = NotRun
    /\ payload.hasResults
    /\ Len(payload.results) < 2
    /\ \E c \in Countries :
           payload' = [payload EXCEPT !.results =
                          Append(@, [iso_3166_1 |-> c, release_dates |-> <<>>])]
    /\ UNCHANGED <<resolverOut, notResolverVars>>

\* the last country entry grows by one release record
ReceiveRelease ==
    /\ resolverOut = NotRun
    /\ payload.results # <<>>
    /\ TotalReleases(payload.results) < MaxReleases
    /\ \E r \in Releases :
           payload' = [payload EXCEPT !.results[Len(payload.results)].release_dates =
                          Append(@, r)]
    /\ UNCHANGED <<resolverOut, notResolverVars>>

ResolveEnhanced ==
    /\ resolverOut = NotRun
    /\ resolverOut' = [fn |-> "enhanced", result |-> GetReleaseInfoEnhanced(payload)]
    /\ UNCHANGED <<payload, notResolverVars>>

ResolveBasic ==
    /\ resolverOut = NotRun
    /\ resolverOut' = [fn |-> "basic", result |-> GetReleaseInfoBasic(payload)]
    /\ UNCHANGED <<payload, notResolverVars>>

ResolveWall ==
    /\ resolverOut = NotRun
    /\ \E region \in Countries :
           resolverOut' = [fn |-> "wall", region |-> region,
                           result |-> GetUsDigitalDate(payload, region)]
    /\ UNCHANGED <<payload, notResolverVars>>

NextResolver ==
    ReceiveEntry \/ ReceiveRelease \/ ResolveEnhanced \/ ResolveBasic \/ ResolveWall

----------------------------------------------------------------------------
\* new_release_wall_balanced: check_has_reviews and the tiers of
\* get_balanced_releases.

HighVotes == 20         \* tier 1: vote_count >= 20
TrendingPopularity == 10 \* tier 2: popularity >= 10
LowVotes == 3           \* tier 3: vote_count >= 3
ImdbVoteFloor == 10     \* check_has_reviews: votes > 10

\* the values on either side of each threshold
VoteCounts == {0, LowVotes - 1, LowVotes, HighVotes - 1, HighVotes}
Popularities == {0, TrendingPopularity - 1, TrendingPopularity}
ImdbVotes == {0, ImdbVoteFloor, ImdbVoteFloor + 1}

Movies ==
    [vote_count : VoteCounts, popularity : Popularities,
     original_language : {"en", "fr"}, title : {"", "Title"},
     release_date : {None, EmptyStr, 1}]

\* the ratings API's answer: no usable response (an exception, or Response
\* other than 'True'), or a response with its Metascore, its Rotten
\* Tomatoes rating if any, and its vote count
OmdbError == [Response |-> FALSE]
OmdbResponses ==
    {OmdbError}
    \cup [Response : {TRUE}, Metascore : {"N/A", "70"},
          rotten_tomatoes : {"none", "85%"}, imdbVotes : ImdbVotes]

\* review_info, as the sequence of the keys it holds
ReviewInfo(data) ==
    (IF data.Metascore # "N/A" THEN <<"metacritic">> ELSE <<>>)
    \o (IF data.rotten_tomatoes # "none" THEN <<"rt_score">> ELSE <<>>)
    \o (IF data.imdbVotes # 0 /\ data.imdbVotes > ImdbVoteFloor
        THEN <<"imdb_votes", "imdb_rating">> ELSE <<>>)

\* a faulty variant, for comparison: every answer of the ratings API counts as a review
CheckHasReviews_AlwaysFound(data) ==
    [has_review |-> TRUE, review_info |-> <<"rt_score">>]

\* check_has_reviews: (has_review, review_info)
CheckHasReviews(data) ==
    IF data.Response
    THEN [has_review |-> ReviewInfo(data) # <<>>, review_info |-> ReviewInfo(data)]
    ELSE [has_review |-> FALSE, review_info |-> <<>>]

\* a faulty variant, for comparison: the reason names the critics' scores only
ReviewParts_ScoresOnly(review_info) ==
    (IF "rt_score" \in Range(review_info) THEN <<"RT">> ELSE <<>>)
    \o (IF "metacritic" \in Range(review_info) THEN <<"Meta">> ELSE <<>>)

\* the parts of tier 4's reason, joined by " | " in the code
ReviewParts(review_info) ==
    (IF "rt_score" \in Range(review_info) THEN <<"RT">> ELSE <<>>)
    \o (IF "metacritic" \in Range(review_info) THEN <<"Meta">> ELSE <<>>)
    \o (IF "imdb_votes" \in Range(review_info) THEN <<"IMDB">> ELSE <<>>)

Excluded ==
    [include |-> FALSE, tier |-> 0, reason |-> <<>>, review_data |-> <<>>, lookups |-> 0]

Tier1(m) == m.vote_count >= HighVotes
Tier2(m) == m.popularity >= TrendingPopularity
Tier3(m) == m.original_language \in {"en"} /\ m.vote_count >= LowVotes

\* a faulty variant, for comparison: tier 3 is tested before tiers 1 and 2
Classify_LanguageFirst(m, data) ==
    IF Tier3(m)
    THEN [Excluded EXCEPT !.include = TRUE, !.tier = 3,
                          !.reason = <<"English film", m.vote_count>>]
    ELSE IF Tier1(m)
    THEN [Excluded EXCEPT !.include = TRUE, !.tier = 1,
                          !.reason = <<"TMDB popular", m.vote_count>>]
    ELSE IF Tier2(m)
    THEN [Excluded EXCEPT !.include = TRUE, !.tier = 2,
                          !.reason = <<"Trending", m.popularity>>]
    ELSE IF m.title # ""
    THEN LET checked == CheckHasReviews(data)
         IN  IF checked.has_review
             THEN [include |-> TRUE, tier |-> 4,
                   reason |-> ReviewParts(checked.review_info),
                   review_data |-> checked.review_info, lookups |-> 1]
             ELSE IF m.title # "" /\ ~Falsy(m.release_date)
             THEN [Excluded EXCEPT !.include = TRUE, !.tier = 5,
                                   !.reason = <<"Recent release">>, !.lookups = 1]
             ELSE [Excluded EXCEPT !.lookups = 1]
    ELSE Excluded

\* the body of the loop of get_balanced_releases for one record; `tier`
\* names the branch taken and `lookups` counts the calls of
\* check_has_reviews
Classify(m, data) ==
    IF Tier1(m)
    THEN [Excluded EXCEPT !.include = TRUE, !.tier = 1,
                          !.reason = <<"TMDB popular", m.vote_count>>]
    ELSE IF Tier2(m)
    THEN [Excluded EXCEPT !.include = TRUE, !.tier = 2,
                          !.reason = <<"Trending", m.popularity>>]
    ELSE IF Tier3(m)
    THEN [Excluded EXCEPT !.include = TRUE, !.tier = 3,
                          !.reason = <<"English film", m.vote_count>>]
    ELSE IF m.title # ""
    THEN LET checked == CheckHasReviews(data)
         IN  IF checked.has_review
             THEN [include |-> TRUE, tier |-> 4,
                   reason |-> ReviewParts(checked.review_info),
                   review_data |-> checked.review_info, lookups |-> 1]
             ELSE IF m.title # "" /\ ~Falsy(m.release_date)
             THEN [Excluded EXCEPT !.include = TRUE, !.tier = 5,
                                   !.reason = <<"Recent release">>, !.lookups = 1]
             ELSE [Excluded EXCEPT !.lookups = 1]
    ELSE Excluded

NotClassified == [include |-> FALSE, tier |-> -1]


ClassifyMovie ==
    /\ verdict = NotClassified
    /\ verdict' = Classify(movie, omdb)
    /\ UNCHANGED <<movie, omdb, notClassifierVars>>

NextClassifier == ClassifyMovie

----------------------------------------------------------------------------
\* The tracking stores: EnhancedMovieTracker (movie_tracking_enhanced.json)
\* and MovieTracker (movie_tracking.json).

MaxIds == 1             \* catalog ids 1..MaxIds
Ids == 1..MaxIds

\* dict.get(key, default)
Get(d, key, default) == IF key \in DOMAIN d THEN d[key] ELSE default
\* d[key] = value
Put(d, key, value) == [k \in DOMAIN d \cup {key} |-> IF k = key THEN value ELSE d[k]]

\* What the catalog answers for one title's release dates: the request fails
\* (an exception inside get_release_info's try), or one of these payloads.
USOnly(releases) ==
    [hasResults |-> TRUE,
     results |-> <<[iso_3166_1 |-> "US", release_dates |-> releases]>>]
TheatricalOnly == USOnly(<<[type |-> 3, release_date |-> 1]>>)
TheatricalThenDigital ==
    USOnly(<<[type |-> 3, release_date |-> 1], [type |-> 4, release_date |-> 2]>>)
UndatedDigital == USOnly(<<[type |-> 4, release_date |-> EmptyStr]>>)
TvThenDigital ==
    USOnly(<<[type |-> 6, release_date |-> 1], [type |-> 4, release_date |-> 2]>>)
DigitalAbroad ==
    [hasResults |-> TRUE,
     results |-> <<[iso_3166_1 |-> "GB",
                    release_dates |-> <<[type |-> 4, release_date |-> 1]>>]>>]
RequestFailed == [ok |-> FALSE]
Answer(data) == [ok |-> TRUE, data |-> data]
ReleaseAnswers ==
    {RequestFailed} \cup
    {Answer(d) : d \in {NoResults, TheatricalOnly, TheatricalThenDigital, UndatedDigital}}

\* What the catalog answers for one title's watch providers: the request
\* fails, or the US block of the response (all lists empty when the
\* response has no US block).
NoProviders == [rent |-> <<>>, buy |-> <<>>, flatrate |-> <<>>, ads |-> <<>>, free |-> <<>>]
StreamOnly == [NoProviders EXCEPT !.flatrate = <<"ServiceX">>]
AdsOnly == [NoProviders EXCEPT !.ads = <<"ServiceY">>]
ProviderAnswers ==
    {RequestFailed, Answer(NoProviders), Answer(StreamOnly), Answer(AdsOnly)}

\* get_omdb_rt_score's return value.  The trackers store it in the new record
\* and never read it.
RtScores == {None}

ReleaseFetches == [Ids -> ReleaseAnswers]
ProviderFetches == [Ids -> ProviderAnswers]
RtFetches == [Ids -> RtScores]

\* get_release_info's return value: [ok |-> FALSE] stands for None
ReleaseInfo(which, answer) ==
    IF ~answer.ok THEN RequestFailed
    ELSE [ok |-> TRUE,
          info |-> IF which = "enhanced" THEN GetReleaseInfoEnhanced(answer.data)
                   ELSE GetReleaseInfoBasic(answer.data)]

\* EnhancedMovieTracker.get_justwatch_providers
GetJustwatchProviders(answer) ==
    IF ~answer.ok THEN [has_providers |-> FALSE, provider_count |-> 0]
    ELSE LET us_data == answer.data
         IN  [has_providers |-> us_data.rent # <<>> \/ us_data.buy # <<>>
                                    \/ us_data.flatrate # <<>>,
              provider_count |-> Len(us_data.rent) + Len(us_data.buy)
                                    + Len(us_data.flatrate)]

\* load_database's fresh document
FreshDb(which) ==
    IF which = "enhanced"
    THEN [movies |-> <<>>, last_update |-> None, last_provider_check |-> None,
          stats |-> [total_tracked |-> 0, resolved |-> 0, still_tracking |-> 0,
                     provider_detected |-> 0]]
    ELSE [movies |-> <<>>, last_update |-> None,
          stats |-> [total_tracked |-> 0, resolved |-> 0, still_tracking |-> 0]]

\* the database file: absent, cut by open(..., 'w'), or holding a document
NoFile == [state |-> "missing"]
\* (`replaced` remembers what open(..., 'w') cut: nothing, or a document)
Truncated(previous) == [state |-> "truncated", replaced |-> previous.state]
Written(doc) == [state |-> "written", doc |-> doc]

\* a faulty variant, for comparison: the file is never read
LoadDatabase_Fresh(which, file) == FreshDb(which)

\* load_database: json.load gives back the document json.dump wrote (the
\* document holds only strings, numbers, booleans, None and lists under
\* string keys)
LoadDatabase(which, file) ==
    IF file.state = "written" THEN file.doc ELSE FreshDb(which)

\* a faulty variant, for comparison: the stats of the loaded document are kept
WithStats_KeepStats(which, doc, day) == [doc EXCEPT !.last_update = day]

\* a faulty variant, for comparison: total_tracked is added to the previous count
WithStats_Accumulate(which, doc, day) ==
    LET movies == doc.movies
        count(status) == Cardinality({id \in DOMAIN movies : movies[id].status = status})
        stamped == [doc EXCEPT !.last_update = day]
    IN  [stamped EXCEPT !.stats.total_tracked = @ + Cardinality(DOMAIN movies),
                        !.stats.resolved = count("resolved"),
                        !.stats.still_tracking = count("tracking")]

\* save_database, up to the write: last_update and the recomputed stats
WithStats(which, doc, day) ==
    LET movies == doc.movies
        count(status) == Cardinality({id \in DOMAIN movies : movies[id].status = status})
        stamped == [doc EXCEPT !.last_update = day]
    IN  IF which = "enhanced"
        THEN [stamped EXCEPT !.stats =
                 [total_tracked |-> Cardinality(DOMAIN movies),
                  resolved |-> count("resolved"),
                  still_tracking |-> count("tracking"),
                  provider_detected |->
                      Cardinality({id \in DOMAIN movies :
                                      Get(movies[id], "detected_via_providers", FALSE)})]]
        ELSE [stamped EXCEPT !.stats =
                 [total_tracked |-> Cardinality(DOMAIN movies),
                  resolved |-> count("resolved"),
                  still_tracking |-> count("tracking")]]

\* a faulty variant, for comparison: the status of a new record follows the release dates only
EnhancedRecord_DatesOnly(id, info, provider_info, rt_score, day) ==
    [title |-> id, tmdb_id |-> id,
     premiere_date |-> info.premiere_date,
     limited_date |-> info.limited_date,
     theatrical_date |-> info.theatrical_date,
     digital_date |-> info.digital_date,
     earliest_release |-> info.earliest_release,
     release_types_found |-> info.release_types_found,
     provider_count |-> provider_info.provider_count,
     has_providers |-> provider_info.has_providers,
     detected_via_providers |-> provider_info.has_providers /\ ~info.has_digital,
     rt_score |-> rt_score,
     status |-> IF info.has_digital THEN "resolved" ELSE "tracking",
     added_to_db |-> day, last_checked |-> day, last_provider_check |-> day]

\* the record add_new_releases, comprehensive_bootstrap and
\* add_movie_by_title store for a new title
EnhancedRecord(id, info, provider_info, rt_score, day) ==
    [title |-> id, tmdb_id |-> id,
     premiere_date |-> info.premiere_date,
     limited_date |-> info.limited_date,
     theatrical_date |-> info.theatrical_date,
     digital_date |-> info.digital_date,
     earliest_release |-> info.earliest_release,
     release_types_found |-> info.release_types_found,
     provider_count |-> provider_info.provider_count,
     has_providers |-> provider_info.has_providers,
     detected_via_providers |-> provider_info.has_providers /\ ~info.has_digital,
     rt_score |-> rt_score,
     status |-> IF info.has_digital \/ provider_info.has_providers
                THEN "resolved" ELSE "tracking",
     added_to_db |-> day, last_checked |-> day, last_provider_check |-> day]

\* the record bootstrap_database and add_new_theatrical_releases store
BasicRecord(id, info, rt_score, day) ==
    [title |-> id, tmdb_id |-> id,
     theatrical_date |-> info.theatrical_date,
     digital_date |-> info.digital_date,
     rt_score |-> rt_score,
     status |-> IF info.has_digital THEN "resolved" ELSE "tracking",
     added_to_db |-> day, last_checked |-> day]

\* a faulty variant, for comparison: an id already in the store is added again
IsNew_Always(movies, id) == TRUE

\* `if movie_id not in self.db['movies']`
IsNew(movies, id) == id \notin DOMAIN movies

\* a faulty variant, for comparison: the re-check loops run over every record
TrackingIds_All(movies) == DOMAIN movies

\* `tracking_movies`
TrackingIds(movies) == {id \in DOMAIN movies : movies[id].status = "tracking"}

\* the loop of add_new_releases and of comprehensive_bootstrap over the
\* deduplicated discovered titles
AddNewReleasesOp(movies, discovered, releases, providers, scores, day) ==
    LET info(id) == ReleaseInfo("enhanced", releases[id])
        added == {id \in discovered :
                     /\ IsNew(movies, id)
                     /\ info(id).ok
                     /\ ~Falsy(info(id).info.earliest_release)}
    IN  [id \in DOMAIN movies \cup added |->
            IF id \in added
            THEN EnhancedRecord(id, info(id).info, GetJustwatchProviders(providers[id]),
                                scores[id], day)
            ELSE movies[id]]

\* a faulty variant, for comparison: the provider fields are updated but the status is not
CheckProvidersOfMovie_KeepTracking(movie_data, provider_info, day) ==
    LET updated ==
            Put(Put(Put(movie_data, "provider_count", provider_info.provider_count),
                    "has_providers", provider_info.has_providers),
                "last_provider_check", day)
    IN  Put(updated, "has_providers_previously", provider_info.has_providers)

\* one pass of the loop of check_providers_for_tracking_movies
CheckProvidersOfMovie(movie_data, provider_info, day) ==
    LET updated ==
            Put(Put(Put(movie_data, "provider_count", provider_info.provider_count),
                    "has_providers", provider_info.has_providers),
                "last_provider_check", day)
        went_digital ==
            IF provider_info.has_providers
               /\ ~Get(movie_data, "has_providers_previously", FALSE)
            THEN Put(Put(Put(updated, "status", "resolved"),
                         "detected_via_providers", TRUE),
                     "digital_detected_date", day)
            ELSE updated
    IN  Put(went_digital, "has_providers_previously", provider_info.has_providers)

\* check_providers_for_tracking_movies on the whole document
CheckProvidersOp(doc, providers, day) ==
    IF TrackingIds(doc.movies) = {} THEN doc
    ELSE [doc EXCEPT
             !.movies = [id \in DOMAIN doc.movies |->
                            IF id \in TrackingIds(doc.movies)
                            THEN CheckProvidersOfMovie(doc.movies[id],
                                     GetJustwatchProviders(providers[id]), day)
                            ELSE doc.movies[id]],
             !.last_provider_check = day]

\* a faulty variant, for comparison: a returned digital date is ignored
CheckTmdbOfMovie_NeverResolves(movie_data, release_info, day) == movie_data

\* one pass of the loop of check_tmdb_digital_dates
CheckTmdbOfMovie(movie_data, release_info, day) ==
    IF release_info.ok /\ release_info.info.has_digital
       /\ Falsy(Get(movie_data, "digital_date", None))
    THEN Put(Put(Put(movie_data, "digital_date", release_info.info.digital_date),
                 "status", "resolved"),
             "last_checked", day)
    ELSE movie_data

CheckTmdbOp(movies, releases, day) ==
    [id \in DOMAIN movies |->
        IF id \in TrackingIds(movies)
        THEN CheckTmdbOfMovie(movies[id], ReleaseInfo("enhanced", releases[id]), day)
        ELSE movies[id]]

\* the loop of bootstrap_database: `if not release_info: continue`
BootstrapDatabaseOp(movies, discovered, releases, scores, day) ==
    LET info(id) == ReleaseInfo("basic", releases[id])
        added == {id \in discovered : IsNew(movies, id) /\ info(id).ok}
    IN  [id \in DOMAIN movies \cup added |->
            IF id \in added THEN BasicRecord(id, info(id).info, scores[id], day)
            ELSE movies[id]]

\* a faulty variant, for comparison: the store is rebuilt from the titles just added
AddNewTheatricalOp_OnlyNew(movies, discovered, releases, scores, day) ==
    LET info(id) == ReleaseInfo("basic", releases[id])
        added == {id \in discovered :
                     /\ IsNew(movies, id)
                     /\ info(id).ok
                     /\ ~Falsy(info(id).info.theatrical_date)}
    IN  [id \in added |-> BasicRecord(id, info(id).info, scores[id], day)]

\* the loop of add_new_theatrical_releases
AddNewTheatricalOp(movies, discovered, releases, scores, day) ==
    LET info(id) == ReleaseInfo("basic", releases[id])
        added == {id \in discovered :
                     /\ IsNew(movies, id)
                     /\ info(id).ok
                     /\ ~Falsy(info(id).info.theatrical_date)}
    IN  [id \in DOMAIN movies \cup added |->
            IF id \in added THEN BasicRecord(id, info(id).info, scores[id], day)
            ELSE movies[id]]

\* one pass of the loop of check_tracking_movies
CheckTrackingOfMovie(movie_data, release_info, day) ==
    IF release_info.ok /\ release_info.info.has_digital
    THEN Put(Put(Put(movie_data, "digital_date", release_info.info.digital_date),
                 "status", "resolved"),
             "last_checked", day)
    ELSE Put(movie_data, "last_checked", day)

CheckTrackingOp(movies, releases, day) ==
    [id \in DOMAIN movies |->
        IF id \in TrackingIds(movies)
        THEN CheckTrackingOfMovie(movies[id], ReleaseInfo("basic", releases[id]), day)
        ELSE movies[id]]

\* daily_update of either tracker, from the loaded document to the document
\* save_database writes; each catalog endpoint gives one answer per title
DailyUpdate(which, doc, discovered, releases, providers, scores, day) ==
    IF which = "enhanced"
    THEN LET added == [doc EXCEPT !.movies =
                          AddNewReleasesOp(@, discovered, releases, providers, scores, day)]
             provider_checked == CheckProvidersOp(added, providers, day)
             tmdb_checked == [provider_checked EXCEPT !.movies =
                                 CheckTmdbOp(@, releases, day)]
         IN  WithStats(which, tmdb_checked, day)
    ELSE LET added == [doc EXCEPT !.movies =
                          AddNewTheatricalOp(@, discovered, releases, scores, day)]
             checked == [added EXCEPT !.movies = CheckTrackingOp(@, releases, day)]
         IN  WithStats(which, checked, day)

----------------------------------------------------------------------------
\* The tracker's processes: one command per process (main), which loads the
\* database when the tracker is constructed, runs its handlers, saves and
\* ends.

Commands(which) ==
    IF which = "enhanced" THEN {"bootstrap", "daily", "add", "check-providers"}
    ELSE {"bootstrap", "daily"}

FirstStep(command) ==
    CASE command = "bootstrap" -> "bootstrap"
      [] command = "daily" -> "add_new"
      [] command = "add" -> "add_by_title"
      [] command = "check-providers" -> "check_providers"

ResolvedIds(movies) == {id \in DOMAIN movies : movies[id].status = "resolved"}

\* the process ends: its memory is gone
Ends(status) ==
    /\ pc' = "off"
    /\ cmd' = "none"
    /\ db' = FreshDb(impl)
    /\ exitStatus' = status
    /\ failedLookups' = {}

\* main: the tracker is constructed (load_database) and the command chosen;
\* json.load raises on a file that holds no complete document
StartProcess ==
    /\ pc = "off"
    /\ IF disk.state = "truncated"
       THEN /\ exitStatus' = "exception"
            /\ UNCHANGED <<cmd, pc, db>>
       ELSE \E command \in Commands(impl) :
               /\ cmd' = command
               /\ pc' = FirstStep(command)
               /\ db' = LoadDatabase(impl, disk)
               /\ exitStatus' = "running"
    /\ UNCHANGED <<impl, disk, today, everResolved, failedLookups, notTrackerVars>>

\* EnhancedMovieTracker.comprehensive_bootstrap, up to its save_database
ComprehensiveBootstrap ==
    /\ impl = "enhanced" /\ pc = "bootstrap"
    /\ \E discovered \in SUBSET Ids :
       \E releases \in [{id \in discovered : IsNew(db.movies, id)} -> ReleaseAnswers],
          providers \in [{id \in discovered : IsNew(db.movies, id)} -> ProviderAnswers],
          scores \in [{id \in discovered : IsNew(db.movies, id)} -> RtScores] :
           db' = [db EXCEPT !.movies =
                     AddNewReleasesOp(@, discovered, releases, providers, scores, today)]
    /\ pc' = "save"
    /\ UNCHANGED <<impl, cmd, disk, today, exitStatus, everResolved, failedLookups,
                   notTrackerVars>>

\* EnhancedMovieTracker.add_new_releases (daily_update's first call)
AddNewReleases ==
    /\ impl = "enhanced" /\ pc = "add_new"
    /\ \E discovered \in SUBSET Ids :
       \E releases \in [{id \in discovered : IsNew(db.movies, id)} -> ReleaseAnswers],
          providers \in [{id \in discovered : IsNew(db.movies, id)} -> ProviderAnswers],
          scores \in [{id \in discovered : IsNew(db.movies, id)} -> RtScores] :
           db' = [db EXCEPT !.movies =
                     AddNewReleasesOp(@, discovered, releases, providers, scores, today)]
    /\ pc' = "check_providers"
    /\ UNCHANGED <<impl, cmd, disk, today, exitStatus, everResolved, failedLookups,
                   notTrackerVars>>

\* EnhancedMovieTracker.check_providers_for_tracking_movies (daily_update's
\* second call, or the check-providers command)
CheckProvidersForTrackingMovies ==
    /\ impl = "enhanced" /\ pc = "check_providers"
    /\ \E providers \in [TrackingIds(db.movies) -> ProviderAnswers] :
           /\ db' = CheckProvidersOp(db, providers, today)
           /\ failedLookups' = failedLookups \cup
                  {<<id, "providers">> : id \in {i \in TrackingIds(db.movies) : ~providers[i].ok}}
    /\ pc' = IF cmd = "daily" THEN "check_tmdb" ELSE "save"
    /\ UNCHANGED <<impl, cmd, disk, today, exitStatus, everResolved, notTrackerVars>>

\* EnhancedMovieTracker.check_tmdb_digital_dates (daily_update's third call)
CheckTmdbDigitalDates ==
    /\ impl = "enhanced" /\ pc = "check_tmdb"
    /\ \E releases \in [TrackingIds(db.movies) -> ReleaseAnswers] :
           /\ db' = [db EXCEPT !.movies = CheckTmdbOp(@, releases, today)]
           /\ failedLookups' = failedLookups \cup
                  {<<id, "releases">> : id \in {i \in TrackingIds(db.movies) : ~releases[i].ok}}
    /\ pc' = "save"
    /\ UNCHANGED <<impl, cmd, disk, today, exitStatus, everResolved, notTrackerVars>>

\* EnhancedMovieTracker.add_movie_by_title: the search finds no title, or
\* finds one; release_info['has_digital'] raises TypeError when the release
\* lookup returned None
AddMovieByTitle ==
    /\ impl = "enhanced" /\ pc = "add_by_title"
    /\ \/ Ends("ok") /\ UNCHANGED disk
       \/ \E id \in Ids :
              IF ~IsNew(db.movies, id) THEN Ends("ok") /\ UNCHANGED disk
              ELSE \E release \in ReleaseAnswers, provider \in ProviderAnswers,
                      rt_score \in RtScores :
                       IF ~release.ok THEN Ends("exception") /\ UNCHANGED disk
                       ELSE /\ db' = [db EXCEPT !.movies =
                                        Put(@, id,
                                            Put(EnhancedRecord(id,
                                                    ReleaseInfo("enhanced", release).info,
                                                    GetJustwatchProviders(provider),
                                                    rt_score, today),
                                                "manually_added", TRUE))]
                            /\ pc' = "save"
                            /\ UNCHANGED <<cmd, disk, exitStatus, failedLookups>>
    /\ UNCHANGED <<impl, today, everResolved, notTrackerVars>>

\* MovieTracker.bootstrap_database, up to its save_database
BootstrapDatabase ==
    /\ impl = "basic" /\ pc = "bootstrap"
    /\ \E discovered \in SUBSET Ids :
       \E releases \in [{id \in discovered : IsNew(db.movies, id)} -> ReleaseAnswers],
          scores \in [{id \in discovered : IsNew(db.movies, id)} -> RtScores] :
           db' = [db EXCEPT !.movies =
                     BootstrapDatabaseOp(@, discovered, releases, scores, today)]
    /\ pc' = "save"
    /\ UNCHANGED <<impl, cmd, disk, today, exitStatus, everResolved, failedLookups,
                   notTrackerVars>>

\* MovieTracker.add_new_theatrical_releases: its discovery request is made
\* outside any try, so a failed request ends the process
AddNewTheatricalReleases ==
    /\ impl = "basic" /\ pc = "add_new"
    /\ \/ Ends("exception")
       \/ \E discovered \in SUBSET Ids :
          \E releases \in [{id \in discovered : IsNew(db.movies, id)} -> ReleaseAnswers],
             scores \in [{id \in discovered : IsNew(db.movies, id)} -> RtScores] :
              /\ db' = [db EXCEPT !.movies =
                           AddNewTheatricalOp(@, discovered, releases, scores, today)]
              /\ pc' = "check_tracking"
              /\ UNCHANGED <<cmd, exitStatus, failedLookups>>
    /\ UNCHANGED <<impl, disk, today, everResolved, notTrackerVars>>

\* MovieTracker.check_tracking_movies
CheckTrackingMovies ==
    /\ impl = "basic" /\ pc = "check_tracking"
    /\ \E releases \in [TrackingIds(db.movies) -> ReleaseAnswers] :
           /\ db' = [db EXCEPT !.movies = CheckTrackingOp(@, releases, today)]
           /\ failedLookups' = failedLookups \cup
                  {<<id, "releases">> : id \in {i \in TrackingIds(db.movies) : ~releases[i].ok}}
    /\ pc' = "save"
    /\ UNCHANGED <<impl, cmd, disk, today, exitStatus, everResolved, notTrackerVars>>

\* save_database, first half: last_update and stats are set and
\* open(self.db_file, 'w') cuts the file to length zero
SaveOpen ==
    /\ pc = "save"
    /\ db' = WithStats(impl, db, today)
    /\ disk' = Truncated(disk)
    /\ pc' = "dump"
    /\ UNCHANGED <<impl, cmd, today, exitStatus, everResolved, failedLookups,
                   notTrackerVars>>

\* save_database, second half: json.dump writes the document and the file
\* is closed; save_database is the last call of every command
SaveDump ==
    /\ pc = "dump"
    /\ disk' = Written(db)
    /\ everResolved' = everResolved \cup ResolvedIds(db.movies)
    /\ Ends("ok")
    /\ UNCHANGED <<impl, today, notTrackerVars>>

\* json.dump or the write raises (a full disk, an I/O error)
SaveFails ==
    /\ pc = "dump"
    /\ Ends("exception")
    /\ UNCHANGED <<impl, disk, today, everResolved, notTrackerVars>>

\* the process is terminated from outside at any point
Kill ==
    /\ pc # "off"
    /\ Ends("killed")
    /\ UNCHANGED <<impl, disk, today, everResolved, notTrackerVars>>

\* a day passes between two runs
NextDay ==
    /\ pc = "off"
    /\ today < MaxDay
    /\ today' = today + 1
    /\ UNCHANGED <<impl, cmd, pc, db, disk, exitStatus, everResolved, failedLookups,
                   notTrackerVars>>

NextTracker ==
    \/ StartProcess
    \/ ComprehensiveBootstrap
    \/ AddNewReleases
    \/ CheckProvidersForTrackingMovies
    \/ CheckTmdbDigitalDates
    \/ AddMovieByTitle
    \/ BootstrapDatabase
    \/ AddNewTheatricalReleases
    \/ CheckTrackingMovies
    \/ SaveOpen
    \/ SaveDump
    \/ SaveFails
    \/ Kill
    \/ NextDay

----------------------------------------------------------------------------
\* The release wall (new_release_wall.main): every deduplicated title is
\* enriched by four catalog requests and one ratings request, then the
\* collected items are sorted and written.

MaxTitles == 2          \* titles in one discovered batch
Retries == 3
MinRt == 1

WallTitles == 1..MaxTitles
WallMovies == [id : WallTitles, release_date : DateStrings]
WallBatches ==
    {q \in UNION {[1..n -> WallMovies] : n \in 0..MaxTitles} :
        \A i, j \in 1..Len(q) : i # j => q[i].id # q[j].id}
WallArgs ==
    {a \in [digital : BOOLEAN, start_date : Days, end_date : Days] :
        a.start_date <= a.end_date}
WallReleasePayloads ==
    {NoResults, TheatricalOnly, TheatricalThenDigital, UndatedDigital, DigitalAbroad,
     TvThenDigital}
WallProviderBlocks == {NoProviders, StreamOnly, AdsOnly}
WallRtScores == {None, 85}

\* the stages at which main waits for tmdb_get, that is for safe_json_get
RequestStages == {"release_dates", "providers", "external_ids", "videos"}

\* (`release_dates` keeps the response us_digital_date was resolved from)
NoCurrent ==
    [us_digital_date |-> None, release_dates |-> NoResults, providers |-> {}, rt |-> None]

\* movie_watch_providers: the names of all five categories (the program
\* returns them as a sorted list without repetitions)
MovieWatchProviders(loc) ==
    UNION {Range(loc[cat]) : cat \in {"flatrate", "rent", "buy", "ads", "free"}}

\* items.sort(key=lambda x: x.get("release_date") or "", reverse=True):
\* a stable sort, latest date first
RECURSIVE InsertDesc(_, _)
InsertDesc(sorted, item) ==
    IF sorted = <<>> THEN <<item>>
    ELSE IF Head(sorted).release_date >= item.release_date
         THEN <<Head(sorted)>> \o InsertDesc(Tail(sorted), item)
         ELSE <<item>> \o sorted

RECURSIVE SortDesc(_)
SortDesc(items) ==
    IF items = <<>> THEN <<>>
    ELSE InsertDesc(SortDesc(SubSeq(items, 1, Len(items) - 1)), items[Len(items)])

\* `continue`, or the end of the loop body: on to the next title
NextTitle ==
    /\ wallQueue' = Tail(wallQueue)
    /\ wallPc' = IF Len(wallQueue) = 1 THEN "write" ELSE "release_dates"
    /\ wallCurrent' = NoCurrent
    /\ wallAttempt' = 0

\* safe_json_get: an attempt fails and another is left
WallTransientFailure ==
    /\ wallPc \in RequestStages
    /\ wallAttempt < Retries - 1
    /\ wallAttempt' = wallAttempt + 1
    /\ UNCHANGED <<wallArgs, wallPc, wallQueue, wallCurrent, wallItems, notWallVars>>

\* safe_json_get: the last attempt fails and the exception is raised again;
\* nothing between the request and the top of main catches it
WallRequestRaises ==
    /\ wallPc \in RequestStages
    /\ wallAttempt = Retries - 1
    /\ wallPc' = "aborted"
    /\ UNCHANGED <<wallArgs, wallQueue, wallCurrent, wallAttempt, wallItems, notWallVars>>

\* get_us_digital_date answers, and the --digital window test
WallReleaseDates ==
    /\ wallPc = "release_dates"
    /\ \E data \in WallReleasePayloads :
           LET us_digital_date == GetUsDigitalDate(data, "US")
           IN  IF wallArgs.digital
                  /\ (Falsy(us_digital_date)
                      \/ ~(wallArgs.start_date <= us_digital_date
                           /\ us_digital_date <= wallArgs.end_date))
               THEN NextTitle
               ELSE /\ wallCurrent' = [wallCurrent EXCEPT !.us_digital_date = us_digital_date,
                                                          !.release_dates = data]
                    /\ wallPc' = "providers"
                    /\ wallAttempt' = 0
                    /\ UNCHANGED wallQueue
    /\ UNCHANGED <<wallArgs, wallItems, notWallVars>>

\* movie_watch_providers answers; a title without providers is dropped
WallProviders ==
    /\ wallPc = "providers"
    /\ \E loc \in WallProviderBlocks :
           IF MovieWatchProviders(loc) = {}
           THEN NextTitle
           ELSE /\ wallCurrent' = [wallCurrent EXCEPT !.providers = MovieWatchProviders(loc)]
                /\ wallPc' = "external_ids"
                /\ wallAttempt' = 0
                /\ UNCHANGED wallQueue
    /\ UNCHANGED <<wallArgs, wallItems, notWallVars>>

\* tmdb_imdb_id answers, then omdb_rt_score, which catches its own failures
\* and returns None; a title below min_rt is dropped
WallRatings ==
    /\ wallPc = "external_ids"
    /\ \E rt \in WallRtScores :
           IF MinRt > 0 /\ (rt = None \/ rt < MinRt)
           THEN NextTitle
           ELSE /\ wallCurrent' = [wallCurrent EXCEPT !.rt = rt]
                /\ wallPc' = "videos"
                /\ wallAttempt' = 0
                /\ UNCHANGED wallQueue
    /\ UNCHANGED <<wallArgs, wallItems, notWallVars>>

\* tmdb_trailer_url answers and the item is appended
WallTrailer ==
    /\ wallPc = "videos"
    /\ LET m == Head(wallQueue)
       IN  wallItems' = Append(wallItems,
               [id |-> m.id,
                rt_score |-> wallCurrent.rt,
                providers |-> wallCurrent.providers,
                release_date |-> IF Falsy(wallCurrent.us_digital_date)
                                 THEN m.release_date
                                 ELSE wallCurrent.us_digital_date])
    /\ NextTitle
    /\ UNCHANGED <<wallArgs, notWallVars>>

\* after the loop: the items are sorted and the outputs written
WallWrite ==
    /\ wallPc = "write"
    /\ wallItems' = SortDesc(wallItems)
    /\ wallPc' = "done"
    /\ UNCHANGED <<wallArgs, wallQueue, wallCurrent, wallAttempt, notWallVars>>

NextWall ==
    \/ WallTransientFailure
    \/ WallRequestRaises
    \/ WallReleaseDates
    \/ WallProviders
    \/ WallRatings
    \/ WallTrailer
    \/ WallWrite

----------------------------------------------------------------------------
\* The HTTP retry wrappers: safe_json_get (new_release_wall.py) and
\* TMDB._req (scraper_core.py).

MAX_RETRIES == 3

HttpFns == {"safe_json_get", "_req"}

\* the number of attempts of one call
Budget(fn) == IF fn = "safe_json_get" THEN Retries ELSE MAX_RETRIES

\* what one attempt meets: requests.get raises (a timeout, a failed
\* connection), or a response arrives with a status and a body that is
\* JSON or not
NoError == [type |-> "none", status |-> None]
NetworkFailure(exc) == [exc |-> exc, status |-> None, json |-> FALSE]
Response(status, json) == [exc |-> "none", status |-> status, json |-> json]
NotFound == Response(404, FALSE)
HttpResponses ==
    {NetworkFailure("Timeout"), NetworkFailure("ConnectionError"),
     Response(200, TRUE), Response(200, FALSE), NotFound,
     Response(429, FALSE), Response(500, FALSE)}

\* the exception raised inside the try of one attempt, NoError if the
\* attempt returns r.json()
AttemptError(fn, resp) ==
    IF resp.exc # "none" THEN [type |-> resp.exc, status |-> None]
    ELSE IF fn = "_req" /\ resp.status \in {429, 500, 502, 503, 504}
         THEN [type |-> "RuntimeError", status |-> resp.status]
    ELSE IF resp.status >= 400
         THEN [type |-> "HTTPError", status |-> resp.status]
    ELSE IF ~resp.json THEN [type |-> "JSONDecodeError", status |-> None]
    ELSE NoError

\* the exception the caller gets when the last attempt has failed:
\* safe_json_get raises the last exception again, _req raises a RuntimeError
\* whose message holds it
RaisedError(fn, last_err) ==
    IF fn = "safe_json_get" THEN last_err
    ELSE [type |-> "RuntimeError", status |-> None, last_err |-> last_err]

\* time.sleep, in tenths of a second: DEFAULT_SLEEP is 0.1 s, the step of
\* safe_json_get is 1.5 s
DEFAULT_SLEEP == 1
SafeBackoff == 15

\* _req sleeps DEFAULT_SLEEP once the status checks have passed, before it
\* decodes the body
Paced(fn, resp) ==
    /\ fn = "_req"
    /\ resp.exc = "none"
    /\ resp.status \notin {429, 500, 502, 503, 504}
    /\ resp.status < 400

PaceSleep(fn, resp) ==
    IF Paced(fn, resp) THEN <<[why |-> "pace", delay |-> DEFAULT_SLEEP]>> ELSE <<>>

\* a faulty variant, for comparison: the same delay after every failed attempt
RetryDelay_Constant(fn, attempt) ==
    IF fn = "safe_json_get" THEN SafeBackoff ELSE DEFAULT_SLEEP

\* the sleep after the failed attempt number `attempt` (counted from 1):
\* 1.5 * (i + 1) in safe_json_get, DEFAULT_SLEEP * attempt in _req
RetryDelay(fn, attempt) ==
    IF fn = "safe_json_get" THEN SafeBackoff * attempt ELSE DEFAULT_SLEEP * attempt

\* a caller calls the wrapper
HttpCall ==
    /\ httpPc # "running"
    /\ httpFn' \in HttpFns
    /\ httpPc' = "running"
    /\ httpAttempt' = 0
    /\ httpSeen' = <<>>
    /\ httpError' = NoError
    /\ httpSleeps' = <<>>
    /\ UNCHANGED notHttpVars

\* an attempt returns the decoded body
HttpAttemptReturns ==
    /\ httpPc = "running"
    /\ \E resp \in HttpResponses :
           /\ AttemptError(httpFn, resp) = NoError
           /\ httpSeen' = Append(httpSeen, resp)
           /\ httpSleeps' = httpSleeps \o PaceSleep(httpFn, resp)
    /\ httpPc' = "returned"
    /\ UNCHANGED <<httpFn, httpAttempt, httpError, notHttpVars>>

\* `except Exception`: an attempt raises and another is left; the wrapper
\* sleeps and tries again
HttpAttemptFails ==
    /\ httpPc = "running"
    /\ httpAttempt < Budget(httpFn) - 1
    /\ \E resp \in HttpResponses :
           /\ AttemptError(httpFn, resp) # NoError
           /\ httpSeen' = Append(httpSeen, resp)
           /\ httpSleeps' = httpSleeps \o PaceSleep(httpFn, resp) \o
                  <<[why |-> "retry", delay |-> RetryDelay(httpFn, httpAttempt + 1)]>>
    /\ httpAttempt' = httpAttempt + 1
    /\ UNCHANGED <<httpFn, httpPc, httpError, notHttpVars>>

\* the last attempt raises: the call raises to its caller
HttpLastAttemptFails ==
    /\ httpPc = "running"
    /\ httpAttempt = Budget(httpFn) - 1
    /\ \E resp \in HttpResponses :
           /\ AttemptError(httpFn, resp) # NoError
           /\ httpSeen' = Append(httpSeen, resp)
           /\ httpError' = RaisedError(httpFn, AttemptError(httpFn, resp))
           /\ httpSleeps' = httpSleeps \o PaceSleep(httpFn, resp)
    /\ httpAttempt' = httpAttempt + 1
    /\ httpPc' = "raised"
    /\ UNCHANGED <<httpFn, notHttpVars>>

NextHttp ==
    \/ HttpCall
    \/ HttpAttemptReturns
    \/ HttpAttemptFails
    \/ HttpLastAttemptFails

----------------------------------------------------------------------------
\* The start of the entry points: new_release_wall.main, the two trackers'
\* constructors, and scraper_core's TMDB client.

MaxRequests == 3        \* network requests counted after a start

EntryPoints ==
    {"new_release_wall", "movie_tracker_enhanced", "movie_tracker", "scraper_core"}

\* config.yaml: missing, or a mapping with or without tmdb_api_key
NoConfigFile == [exists |-> FALSE]
ConfigWith(mapping) == [exists |-> TRUE, mapping |-> mapping]
ConfigFiles ==
    {NoConfigFile, ConfigWith([omdb_api_key |-> "o"]),
     ConfigWith([omdb_api_key |-> "o", tmdb_api_key |-> ""]),
     ConfigWith([omdb_api_key |-> "o", tmdb_api_key |-> "k"]),
     ConfigWith([tmdb_api_key |-> "k"])}

\* os.environ, with or without TMDB_BEARER
Environments == {<<>>, [TMDB_BEARER |-> ""], [TMDB_BEARER |-> "b"]}

\* TMDB(bearer=...): None, or a string
NoBearer == [given |-> FALSE, value |-> ""]
BearerArgs == {NoBearer, [given |-> TRUE, value |-> ""], [given |-> TRUE, value |-> "b"]}

\* new_release_wall.main: load_config, then cfg.get("tmdb_api_key", "") with
\* no test of the value, then get_provider_map's request
StartWall ==
    /\ startEntry = "new_release_wall" /\ startPc = "start"
    /\ IF ~startConfig.exists
       THEN startPc' = "aborted" /\ UNCHANGED startKey
       ELSE /\ startKey' = Get(startConfig.mapping, "tmdb_api_key", "")
            /\ startPc' = "provider_map"
    /\ UNCHANGED <<startEntry, startConfig, startEnv, startArg, startRequests,
                   notStartVars>>

\* get_provider_map: tmdb_get sends a request with the key it was given; the
\* catalog answers only a request that carries a key, and safe_json_get
\* raises after its last attempt
WallProviderMap ==
    /\ startEntry = "new_release_wall" /\ startPc = "provider_map"
    /\ startRequests' = startRequests + 1
    /\ \/ startKey # "" /\ startPc' = "running"
       \/ startPc' = IF startRequests + 1 = Retries THEN "aborted" ELSE "provider_map"
    /\ UNCHANGED <<startEntry, startConfig, startEnv, startArg, startKey, notStartVars>>

\* EnhancedMovieTracker.__init__ and MovieTracker.__init__: load_database,
\* load_config, then self.config['tmdb_api_key'], a KeyError without the key
StartTracker ==
    /\ startEntry \in {"movie_tracker_enhanced", "movie_tracker"} /\ startPc = "start"
    /\ IF ~startConfig.exists \/ "tmdb_api_key" \notin DOMAIN startConfig.mapping
       THEN startPc' = "aborted" /\ UNCHANGED startKey
       ELSE /\ startKey' = startConfig.mapping["tmdb_api_key"]
            /\ startPc' = "ready"
    /\ UNCHANGED <<startEntry, startConfig, startEnv, startArg, startRequests,
                   notStartVars>>

\* TMDB.__init__: `bearer or os.getenv("TMDB_BEARER")`, RuntimeError if empty
StartTMDB ==
    /\ startEntry = "scraper_core" /\ startPc = "start"
    /\ LET bearer == IF startArg.given /\ startArg.value # "" THEN startArg.value
                     ELSE Get(startEnv, "TMDB_BEARER", "")
       IN  IF bearer = ""
           THEN startPc' = "aborted" /\ UNCHANGED startKey
           ELSE startKey' = bearer /\ startPc' = "ready"
    /\ UNCHANGED <<startEntry, startConfig, startEnv, startArg, startRequests,
                   notStartVars>>

\* a started tracker or client, or the wall past its provider map, sends a
\* request
StartedRequest ==
    /\ startPc \in {"ready", "running"}
    /\ startRequests < MaxRequests
    /\ startRequests' = startRequests + 1
    /\ UNCHANGED <<startEntry, startConfig, startEnv, startArg, startPc, startKey,
                   notStartVars>>

NextStart ==
    \/ StartWall
    \/ WallProviderMap
    \/ StartTracker
    \/ StartTMDB
    \/ StartedRequest

----------------------------------------------------------------------------
\* The curator (curator_admin.py): the curate and bulk requests.

MaxCurated == 2         \* title ids 1..MaxCurated
CuratorIds == 1..MaxCurated

\* the <action> segment of /curate/<int:mid>/<action> and the form field
\* `action` of /bulk: the three words the page offers, or any other word
ActionWords == {"pending", "approve", "reject", "maybe"}
\* the search words and the status filters of /bulk
QueryWords == {"", "x"}
StatusFilters == {"all", "pending", "approve", "reject"}

\* output/data.json merged with data_core.json: some titles, each with a
\* text that holds the word "x" or not
Catalogs == UNION {[ids -> BOOLEAN] : ids \in SUBSET CuratorIds}

\* movie_status
MovieStatus(cur, mid) == Get(cur, mid, "pending")

\* bulk's match(m)
Match(cur, catalog, mid, q, status) ==
    /\ q # "" => catalog[mid]
    /\ status # "all" => MovieStatus(cur, mid) = status

\* curate: load_curated, cur[str(mid)] = action, save_curated
Curate ==
    /\ \E mid \in CuratorIds, action \in ActionWords :
           curated' = Put(curated, mid, action)
    /\ UNCHANGED <<curatorCatalog, notCuratorVars>>

\* bulk: load_movies, load_curated, the action stored for every matching
\* title, save_curated
Bulk ==
    /\ \E action \in ActionWords, q \in QueryWords, status \in StatusFilters :
           LET matched == {mid \in DOMAIN curatorCatalog :
                              Match(curated, curatorCatalog, mid, q, status)}
           IN  curated' = [mid \in DOMAIN curated \cup matched |->
                              IF mid \in matched THEN action ELSE curated[mid]]
    /\ UNCHANGED <<curatorCatalog, notCuratorVars>>

NextCurator ==
    \/ Curate
    \/ Bulk

----------------------------------------------------------------------------
\* The deduplication of the discovered records: main of new_release_wall.py,
\* add_new_releases and comprehensive_bootstrap of the enhanced tracker.

MaxDiscovered == 2      \* records in one discovered list

DedupeFns == {"main", "add_new_releases", "comprehensive_bootstrap"}

\* a discovered record: its id, its title and its release date ("" when
\* the catalog gives none)
DiscoveredTitles == {"Heat", "heat ", "Solo"}
DiscoveredDates == {"", "2024-01-05", "2025-01-05"}
DiscoveredMovies == [id : 1..2, title : DiscoveredTitles, release_date : DiscoveredDates]
DiscoveredBatches == UNION {[1..n -> DiscoveredMovies] : n \in 0..MaxDiscovered}

\* `title.strip().lower()`
TitleLower(title) ==
    CASE title = "Heat" -> "heat"
      [] title = "heat " -> "heat"
      [] title = "Solo" -> "solo"

\* `(m.get("release_date") or "0000-00-00")[:4]`
YearOf(release_date) ==
    CASE release_date = "" -> "0000"
      [] release_date = "2024-01-05" -> "2024"
      [] release_date = "2025-01-05" -> "2025"

\* the key a record is remembered by: (title_lower, year) in main,
\* movie['id'] in the tracker
DedupeKey(fn, m) ==
    IF fn = "main" THEN <<TitleLower(m.title), YearOf(m.release_date)>>
    ELSE <<m.id>>

\* the key of the next record is new: the record is kept
DedupeKeeps ==
    /\ dedupeIn # <<>>
    /\ DedupeKey(dedupeFn, Head(dedupeIn)) \notin dedupeSeen
    /\ dedupeSeen' = dedupeSeen \cup {DedupeKey(dedupeFn, Head(dedupeIn))}
    /\ dedupeDone' = Append(dedupeDone, [movie |-> Head(dedupeIn), kept |-> TRUE])
    /\ dedupeIn' = Tail(dedupeIn)
    /\ UNCHANGED <<dedupeFn, notDedupeVars>>

\* `if key in seen: continue`: the record is dropped
DedupeDrops ==
    /\ dedupeIn # <<>>
    /\ DedupeKey(dedupeFn, Head(dedupeIn)) \in dedupeSeen
    /\ dedupeDone' = Append(dedupeDone, [movie |-> Head(dedupeIn), kept |-> FALSE])
    /\ dedupeIn' = Tail(dedupeIn)
    /\ UNCHANGED <<dedupeFn, dedupeSeen, notDedupeVars>>

NextDedupe ==
    \/ DedupeKeeps
    \/ DedupeDrops

----------------------------------------------------------------------------
\* Two curate requests handled at the same time by the threaded server
\* (app.run): request r curates the title id r.  Each runs load_curated,
\* sets its key and runs save_curated, whose open(CURATED_FILE, "w") cuts
\* the file before json.dump writes it.

Requests == {1, 2}

NoCuratedFile == [state |-> "none", doc |-> <<>>]
CuratedFileOf(doc) == [state |-> "written", doc |-> doc]
CuratedFiles ==
    {NoCuratedFile}
    \cup {CuratedFileOf(doc) :
             doc \in UNION {[ids -> {"reject"}] : ids \in SUBSET Requests}}

\* load_curated: {} when the file is missing or does not hold a document
LoadCurated(file) == IF file.state = "written" THEN file.doc ELSE <<>>

\* curate: `cur = load_curated()` and `cur[str(mid)] = action`
RequestLoads ==
    \E r \in Requests :
        /\ requestPc[r] = "start"
        /\ requestCur' = [requestCur EXCEPT ![r] =
                             Put(LoadCurated(curatedFile), r, requestAction[r])]
        /\ requestPc' = [requestPc EXCEPT ![r] = "loaded"]
        /\ UNCHANGED <<requestAction, curatedFile, notRequestVars>>

\* save_curated: open(CURATED_FILE, "w")
RequestOpens ==
    \E r \in Requests :
        /\ requestPc[r] = "loaded"
        /\ curatedFile' = [state |-> "truncated", doc |-> <<>>]
        /\ requestPc' = [requestPc EXCEPT ![r] = "opened"]
        /\ UNCHANGED <<requestAction, requestCur, notRequestVars>>

\* save_curated: json.dump(cur, f) and the file is closed
RequestDumps ==
    \E r \in Requests :
        /\ requestPc[r] = "opened"
        /\ curatedFile' = CuratedFileOf(requestCur[r])
        /\ requestPc' = [requestPc EXCEPT ![r] = "done"]
        /\ UNCHANGED <<requestAction, requestCur, notRequestVars>>

NextRequest ==
    \/ RequestLoads
    \/ RequestOpens
    \/ RequestDumps

----------------------------------------------------------------------------
\* The paginated discovery loops: _discover_movies of the enhanced tracker,
\* bootstrap_database of the basic tracker and discover_movies of
\* new_release_wall.py.

MaxPages == 3           \* the largest --max-pages given on the command line
BootstrapCap == 500
InitialTotalPages == 999

DiscoverFns == {"_discover_movies", "bootstrap_database", "discover_movies"}

\* max_pages at the call sites: 50 (the default), 10 and 5 in the enhanced
\* tracker; the default 10 or the --max-pages argument in the wall
MaxPagesOf(fn) ==
    CASE fn = "_discover_movies" -> {5, 10, 50}
      [] fn = "bootstrap_database" -> {BootstrapCap}
      [] fn = "discover_movies" -> 0..MaxPages \cup {10}

\* a page of /discover/movie: how many results it lists and the
\* total_pages it reports (None when the key is missing)
ReportedTotals == {None, 0, 1, 2, 1000}
NoPage == [results |-> 0, total_pages |-> None]
DiscoverAnswers ==
    {RequestFailed}
    \cup {Answer(data) : data \in [results : {0, 1}, total_pages : ReportedTotals]}

\* the trackers' tmdb_get returns {} when the request fails
PageOf(answer) == IF answer.ok THEN answer.data ELSE NoPage

\* `data.get("total_pages", 1)`
Reported(data) == IF data.total_pages = None THEN 1 ELSE data.total_pages

\* a faulty variant, for comparison: the reported total is taken as it is
TotalPages_Uncapped(fn, data, max_pages) == Reported(data)

\* total_pages after a page: min(reported, max_pages) in _discover_movies,
\* min(reported, 500) in bootstrap_database, as reported in discover_movies
TotalPages(fn, data, max_pages) ==
    CASE fn = "_discover_movies" -> MinOf({Reported(data), max_pages})
      [] fn = "bootstrap_database" -> MinOf({Reported(data), BootstrapCap})
      [] fn = "discover_movies" -> Reported(data)

\* the condition of the while loop
LoopCondition ==
    IF discoverFn = "bootstrap_database" THEN discoverPage <= discoverTotalPages
    ELSE discoverPage <= discoverMaxPages

\* the breaks inside the loop, after the page has been fetched
Breaks(fn, data, page, max_pages) ==
    \/ fn = "_discover_movies" /\ data.results = 0
    \/ page >= TotalPages(fn, data, max_pages)

\* the while condition fails: the function returns
DiscoverLoopEnds ==
    /\ discoverPc = "loop"
    /\ ~LoopCondition
    /\ discoverPc' = "returned"
    /\ UNCHANGED <<discoverFn, discoverMaxPages, discoverPage, discoverTotalPages,
                   discoverRequests, notDiscoverVars>>

\* discover_movies: safe_json_get raises after its last attempt and nothing
\* catches it
DiscoverRaises ==
    /\ discoverPc = "loop"
    /\ LoopCondition
    /\ discoverFn = "discover_movies"
    /\ discoverRequests' = discoverRequests + 1
    /\ discoverPc' = "raised"
    /\ UNCHANGED <<discoverFn, discoverMaxPages, discoverPage, discoverTotalPages,
                   notDiscoverVars>>

\* a page is fetched and the loop breaks
DiscoverBreaks ==
    /\ discoverPc = "loop"
    /\ LoopCondition
    /\ \E answer \in DiscoverAnswers :
           /\ discoverFn = "discover_movies" => answer.ok
           /\ Breaks(discoverFn, PageOf(answer), discoverPage, discoverMaxPages)
           /\ discoverTotalPages' =
                  IF discoverFn = "bootstrap_database"
                  THEN TotalPages(discoverFn, PageOf(answer), discoverMaxPages)
                  ELSE discoverTotalPages
    /\ discoverRequests' = discoverRequests + 1
    /\ discoverPc' = "returned"
    /\ UNCHANGED <<discoverFn, discoverMaxPages, discoverPage, notDiscoverVars>>

\* a page is fetched and the loop goes on: page += 1
DiscoverNextPage ==
    /\ discoverPc = "loop"
    /\ LoopCondition
    /\ \E answer \in DiscoverAnswers :
           /\ discoverFn = "discover_movies" => answer.ok
           /\ ~Breaks(discoverFn, PageOf(answer), discoverPage, discoverMaxPages)
           /\ discoverTotalPages' =
                  IF discoverFn = "bootstrap_database"
                  THEN TotalPages(discoverFn, PageOf(answer), discoverMaxPages)
                  ELSE discoverTotalPages
    /\ discoverRequests' = discoverRequests + 1
    /\ discoverPage' = discoverPage + 1
    /\ UNCHANGED <<discoverFn, discoverMaxPages, discoverPc, notDiscoverVars>>

NextDiscover ==
    \/ DiscoverLoopEnds
    \/ DiscoverRaises
    \/ DiscoverBreaks
    \/ DiscoverNextPage

----------------------------------------------------------------------------
\* The specifications.  Each holds the other components at rest.

RestMovie ==
    [vote_count |-> 0, popularity |-> 0, original_language |-> "en",
     title |-> "", release_date |-> None]

InitResolver ==
    /\ payload \in {NoResults, EmptyResults}
    /\ resolverOut = NotRun
    /\ movie = RestMovie
    /\ omdb = OmdbError
    /\ verdict = NotClassified
    /\ impl = "enhanced"
    /\ cmd = "none"
    /\ pc = "off"
    /\ db = FreshDb("enhanced")
    /\ disk = NoFile
    /\ today = 1
    /\ exitStatus = "none"
    /\ everResolved = {}
    /\ failedLookups = {}
    /\ wallArgs = [digital |-> FALSE, start_date |-> 1, end_date |-> 1]
    /\ wallPc = "done"
    /\ wallQueue = <<>>
    /\ wallCurrent = NoCurrent
    /\ wallAttempt = 0
    /\ wallItems = <<>>
    /\ httpFn = "safe_json_get"
    /\ httpPc = "idle"
    /\ httpAttempt = 0
    /\ httpSeen = <<>>
    /\ httpError = NoError
    /\ httpSleeps = <<>>
    /\ startEntry = "new_release_wall"
    /\ startConfig = NoConfigFile
    /\ startEnv = <<>>
    /\ startArg = NoBearer
    /\ startPc = "aborted"
    /\ startKey = ""
    /\ startRequests = 0
    /\ curated = <<>>
    /\ curatorCatalog = <<>>
    /\ dedupeFn = "main"
    /\ dedupeIn = <<>>
    /\ dedupeSeen = {}
    /\ dedupeDone = <<>>
    /\ requestPc = [r \in Requests |-> "done"]
    /\ requestAction = [r \in Requests |-> "approve"]
    /\ requestCur = [r \in Requests |-> <<>>]
    /\ curatedFile = NoCuratedFile
    /\ discoverFn = "discover_movies"
    /\ discoverMaxPages = 0
    /\ discoverPage = 1
    /\ discoverTotalPages = InitialTotalPages
    /\ discoverRequests = 0
    /\ discoverPc = "returned"

InitClassifier ==
    /\ movie \in Movies
    /\ omdb \in OmdbResponses
    /\ verdict = NotClassified
    /\ payload = NoResults
    /\ resolverOut = NotRun
    /\ impl = "enhanced"
    /\ cmd = "none"
    /\ pc = "off"
    /\ db = FreshDb("enhanced")
    /\ disk = NoFile
    /\ today = 1
    /\ exitStatus = "none"
    /\ everResolved = {}
    /\ failedLookups = {}
    /\ wallArgs = [digital |-> FALSE, start_date |-> 1, end_date |-> 1]
    /\ wallPc = "done"
    /\ wallQueue = <<>>
    /\ wallCurrent = NoCurrent
    /\ wallAttempt = 0
    /\ wallItems = <<>>
    /\ httpFn = "safe_json_get"
    /\ httpPc = "idle"
    /\ httpAttempt = 0
    /\ httpSeen = <<>>
    /\ httpError = NoError
    /\ httpSleeps = <<>>
    /\ startEntry = "new_release_wall"
    /\ startConfig = NoConfigFile
    /\ startEnv = <<>>
    /\ startArg = NoBearer
    /\ startPc = "aborted"
    /\ startKey = ""
    /\ startRequests = 0
    /\ curated = <<>>
    /\ curatorCatalog = <<>>
    /\ dedupeFn = "main"
    /\ dedupeIn = <<>>
    /\ dedupeSeen = {}
    /\ dedupeDone = <<>>
    /\ requestPc = [r \in Requests |-> "done"]
    /\ requestAction = [r \in Requests |-> "approve"]
    /\ requestCur = [r \in Requests |-> <<>>]
    /\ curatedFile = NoCuratedFile
    /\ discoverFn = "discover_movies"
    /\ discoverMaxPages = 0
    /\ discoverPage = 1
    /\ discoverTotalPages = InitialTotalPages
    /\ discoverRequests = 0
    /\ discoverPc = "returned"

\* no database file exists before the first run
Init ==
    /\ impl \in {"enhanced", "basic"}
    /\ cmd = "none"
    /\ pc = "off"
    /\ db = FreshDb(impl)
    /\ disk = NoFile
    /\ today = 1
    /\ exitStatus = "none"
    /\ everResolved = {}
    /\ failedLookups = {}
    /\ payload = NoResults
    /\ resolverOut = NotRun
    /\ movie = RestMovie
    /\ omdb = OmdbError
    /\ verdict = NotClassified
    /\ wallArgs = [digital |-> FALSE, start_date |-> 1, end_date |-> 1]
    /\ wallPc = "done"
    /\ wallQueue = <<>>
    /\ wallCurrent = NoCurrent
    /\ wallAttempt = 0
    /\ wallItems = <<>>
    /\ httpFn = "safe_json_get"
    /\ httpPc = "idle"
    /\ httpAttempt = 0
    /\ httpSeen = <<>>
    /\ httpError = NoError
    /\ httpSleeps = <<>>
    /\ startEntry = "new_release_wall"
    /\ startConfig = NoConfigFile
    /\ startEnv = <<>>
    /\ startArg = NoBearer
    /\ startPc = "aborted"
    /\ startKey = ""
    /\ startRequests = 0
    /\ curated = <<>>
    /\ curatorCatalog = <<>>
    /\ dedupeFn = "main"
    /\ dedupeIn = <<>>
    /\ dedupeSeen = {}
    /\ dedupeDone = <<>>
    /\ requestPc = [r \in Requests |-> "done"]
    /\ requestAction = [r \in Requests |-> "approve"]
    /\ requestCur = [r \in Requests |-> <<>>]
    /\ curatedFile = NoCuratedFile
    /\ discoverFn = "discover_movies"
    /\ discoverMaxPages = 0
    /\ discoverPage = 1
    /\ discoverTotalPages = InitialTotalPages
    /\ discoverRequests = 0
    /\ discoverPc = "returned"

\* main has discovered and deduplicated its batch
InitWall ==
    /\ wallArgs \in WallArgs
    /\ wallQueue \in WallBatches
    /\ wallPc = (IF wallQueue = <<>> THEN "write" ELSE "release_dates")
    /\ wallCurrent = NoCurrent
    /\ wallAttempt = 0
    /\ wallItems = <<>>
    /\ payload = NoResults
    /\ resolverOut = NotRun
    /\ movie = RestMovie
    /\ omdb = OmdbError
    /\ verdict = NotClassified
    /\ impl = "enhanced"
    /\ cmd = "none"
    /\ pc = "off"
    /\ db = FreshDb("enhanced")
    /\ disk = NoFile
    /\ today = 1
    /\ exitStatus = "none"
    /\ everResolved = {}
    /\ failedLookups = {}
    /\ httpFn = "safe_json_get"
    /\ httpPc = "idle"
    /\ httpAttempt = 0
    /\ httpSeen = <<>>
    /\ httpError = NoError
    /\ httpSleeps = <<>>
    /\ startEntry = "new_release_wall"
    /\ startConfig = NoConfigFile
    /\ startEnv = <<>>
    /\ startArg = NoBearer
    /\ startPc = "aborted"
    /\ startKey = ""
    /\ startRequests = 0
    /\ curated = <<>>
    /\ curatorCatalog = <<>>
    /\ dedupeFn = "main"
    /\ dedupeIn = <<>>
    /\ dedupeSeen = {}
    /\ dedupeDone = <<>>
    /\ requestPc = [r \in Requests |-> "done"]
    /\ requestAction = [r \in Requests |-> "approve"]
    /\ requestCur = [r \in Requests |-> <<>>]
    /\ curatedFile = NoCuratedFile
    /\ discoverFn = "discover_movies"
    /\ discoverMaxPages = 0
    /\ discoverPage = 1
    /\ discoverTotalPages = InitialTotalPages
    /\ discoverRequests = 0
    /\ discoverPc = "returned"

\* no call is under way
InitHttp ==
    /\ httpFn \in HttpFns
    /\ httpPc = "idle"
    /\ httpAttempt = 0
    /\ httpSeen = <<>>
    /\ httpError = NoError
    /\ httpSleeps = <<>>
    /\ payload = NoResults
    /\ resolverOut = NotRun
    /\ movie = RestMovie
    /\ omdb = OmdbError
    /\ verdict = NotClassified
    /\ impl = "enhanced"
    /\ cmd = "none"
    /\ pc = "off"
    /\ db = FreshDb("enhanced")
    /\ disk = NoFile
    /\ today = 1
    /\ exitStatus = "none"
    /\ everResolved = {}
    /\ failedLookups = {}
    /\ wallArgs = [digital |-> FALSE, start_date |-> 1, end_date |-> 1]
    /\ wallPc = "done"
    /\ wallQueue = <<>>
    /\ wallCurrent = NoCurrent
    /\ wallAttempt = 0
    /\ wallItems = <<>>
    /\ startEntry = "new_release_wall"
    /\ startConfig = NoConfigFile
    /\ startEnv = <<>>
    /\ startArg = NoBearer
    /\ startPc = "aborted"
    /\ startKey = ""
    /\ startRequests = 0
    /\ curated = <<>>
    /\ curatorCatalog = <<>>
    /\ dedupeFn = "main"
    /\ dedupeIn = <<>>
    /\ dedupeSeen = {}
    /\ dedupeDone = <<>>
    /\ requestPc = [r \in Requests |-> "done"]
    /\ requestAction = [r \in Requests |-> "approve"]
    /\ requestCur = [r \in Requests |-> <<>>]
    /\ curatedFile = NoCuratedFile
    /\ discoverFn = "discover_movies"
    /\ discoverMaxPages = 0
    /\ discoverPage = 1
    /\ discoverTotalPages = InitialTotalPages
    /\ discoverRequests = 0
    /\ discoverPc = "returned"

\* an entry point is about to start; only TMDB() reads the environment
InitStart ==
    /\ startEntry \in EntryPoints
    /\ startConfig \in ConfigFiles
    /\ startEnv \in Environments
    /\ startArg \in BearerArgs
    /\ startEntry # "scraper_core" => startEnv = <<>> /\ startArg = NoBearer
    /\ startPc = "start"
    /\ startKey = ""
    /\ startRequests = 0
    /\ payload = NoResults
    /\ resolverOut = NotRun
    /\ movie = RestMovie
    /\ omdb = OmdbError
    /\ verdict = NotClassified
    /\ impl = "enhanced"
    /\ cmd = "none"
    /\ pc = "off"
    /\ db = FreshDb("enhanced")
    /\ disk = NoFile
    /\ today = 1
    /\ exitStatus = "none"
    /\ everResolved = {}
    /\ failedLookups = {}
    /\ wallArgs = [digital |-> FALSE, start_date |-> 1, end_date |-> 1]
    /\ wallPc = "done"
    /\ wallQueue = <<>>
    /\ wallCurrent = NoCurrent
    /\ wallAttempt = 0
    /\ wallItems = <<>>
    /\ httpFn = "safe_json_get"
    /\ httpPc = "idle"
    /\ httpAttempt = 0
    /\ httpSeen = <<>>
    /\ httpError = NoError
    /\ httpSleeps = <<>>
    /\ curated = <<>>
    /\ curatorCatalog = <<>>
    /\ dedupeFn = "main"
    /\ dedupeIn = <<>>
    /\ dedupeSeen = {}
    /\ dedupeDone = <<>>
    /\ requestPc = [r \in Requests |-> "done"]
    /\ requestAction = [r \in Requests |-> "approve"]
    /\ requestCur = [r \in Requests |-> <<>>]
    /\ curatedFile = NoCuratedFile
    /\ discoverFn = "discover_movies"
    /\ discoverMaxPages = 0
    /\ discoverPage = 1
    /\ discoverTotalPages = InitialTotalPages
    /\ discoverRequests = 0
    /\ discoverPc = "returned"

\* no curated_selections.json exists yet: load_curated returns {}
InitCurator ==
    /\ curated = <<>>
    /\ curatorCatalog \in Catalogs
    /\ payload = NoResults
    /\ resolverOut = NotRun
    /\ movie = RestMovie
    /\ omdb = OmdbError
    /\ verdict = NotClassified
    /\ impl = "enhanced"
    /\ cmd = "none"
    /\ pc = "off"
    /\ db = FreshDb("enhanced")
    /\ disk = NoFile
    /\ today = 1
    /\ exitStatus = "none"
    /\ everResolved = {}
    /\ failedLookups = {}
    /\ wallArgs = [digital |-> FALSE, start_date |-> 1, end_date |-> 1]
    /\ wallPc = "done"
    /\ wallQueue = <<>>
    /\ wallCurrent = NoCurrent
    /\ wallAttempt = 0
    /\ wallItems = <<>>
    /\ httpFn = "safe_json_get"
    /\ httpPc = "idle"
    /\ httpAttempt = 0
    /\ httpSeen = <<>>
    /\ httpError = NoError
    /\ httpSleeps = <<>>
    /\ startEntry = "new_release_wall"
    /\ startConfig = NoConfigFile
    /\ startEnv = <<>>
    /\ startArg = NoBearer
    /\ startPc = "aborted"
    /\ startKey = ""
    /\ startRequests = 0
    /\ dedupeFn = "main"
    /\ dedupeIn = <<>>
    /\ dedupeSeen = {}
    /\ dedupeDone = <<>>
    /\ requestPc = [r \in Requests |-> "done"]
    /\ requestAction = [r \in Requests |-> "approve"]
    /\ requestCur = [r \in Requests |-> <<>>]
    /\ curatedFile = NoCuratedFile
    /\ discoverFn = "discover_movies"
    /\ discoverMaxPages = 0
    /\ discoverPage = 1
    /\ discoverTotalPages = InitialTotalPages
    /\ discoverRequests = 0
    /\ discoverPc = "returned"

InitDedupe ==
    /\ dedupeFn \in DedupeFns
    /\ dedupeIn \in DiscoveredBatches
    /\ dedupeSeen = {}
    /\ dedupeDone = <<>>
    /\ payload = NoResults
    /\ resolverOut = NotRun
    /\ movie = RestMovie
    /\ omdb = OmdbError
    /\ verdict = NotClassified
    /\ impl = "enhanced"
    /\ cmd = "none"
    /\ pc = "off"
    /\ db = FreshDb("enhanced")
    /\ disk = NoFile
    /\ today = 1
    /\ exitStatus = "none"
    /\ everResolved = {}
    /\ failedLookups = {}
    /\ wallArgs = [digital |-> FALSE, start_date |-> 1, end_date |-> 1]
    /\ wallPc = "done"
    /\ wallQueue = <<>>
    /\ wallCurrent = NoCurrent
    /\ wallAttempt = 0
    /\ wallItems = <<>>
    /\ httpFn = "safe_json_get"
    /\ httpPc = "idle"
    /\ httpAttempt = 0
    /\ httpSeen = <<>>
    /\ httpError = NoError
    /\ httpSleeps = <<>>
    /\ startEntry = "new_release_wall"
    /\ startConfig = NoConfigFile
    /\ startEnv = <<>>
    /\ startArg = NoBearer
    /\ startPc = "aborted"
    /\ startKey = ""
    /\ startRequests = 0
    /\ curated = <<>>
    /\ curatorCatalog = <<>>
    /\ requestPc = [r \in Requests |-> "done"]
    /\ requestAction = [r \in Requests |-> "approve"]
    /\ requestCur = [r \in Requests |-> <<>>]
    /\ curatedFile = NoCuratedFile
    /\ discoverFn = "discover_movies"
    /\ discoverMaxPages = 0
    /\ discoverPage = 1
    /\ discoverTotalPages = InitialTotalPages
    /\ discoverRequests = 0
    /\ discoverPc = "returned"

InitRequest ==
    /\ requestPc = [r \in Requests |-> "start"]
    /\ requestAction \in [Requests -> ActionWords]
    /\ requestCur = [r \in Requests |-> <<>>]
    /\ curatedFile \in CuratedFiles
    /\ payload = NoResults
    /\ resolverOut = NotRun
    /\ movie = RestMovie
    /\ omdb = OmdbError
    /\ verdict = NotClassified
    /\ impl = "enhanced"
    /\ cmd = "none"
    /\ pc = "off"
    /\ db = FreshDb("enhanced")
    /\ disk = NoFile
    /\ today = 1
    /\ exitStatus = "none"
    /\ everResolved = {}
    /\ failedLookups = {}
    /\ wallArgs = [digital |-> FALSE, start_date |-> 1, end_date |-> 1]
    /\ wallPc = "done"
    /\ wallQueue = <<>>
    /\ wallCurrent = NoCurrent
    /\ wallAttempt = 0
    /\ wallItems = <<>>
    /\ httpFn = "safe_json_get"
    /\ httpPc = "idle"
    /\ httpAttempt = 0
    /\ httpSeen = <<>>
    /\ httpError = NoError
    /\ httpSleeps = <<>>
    /\ startEntry = "new_release_wall"
    /\ startConfig = NoConfigFile
    /\ startEnv = <<>>
    /\ startArg = NoBearer
    /\ startPc = "aborted"
    /\ startKey = ""
    /\ startRequests = 0
    /\ curated = <<>>
    /\ curatorCatalog = <<>>
    /\ dedupeFn = "main"
    /\ dedupeIn = <<>>
    /\ dedupeSeen = {}
    /\ dedupeDone = <<>>
    /\ discoverFn = "discover_movies"
    /\ discoverMaxPages = 0
    /\ discoverPage = 1
    /\ discoverTotalPages = InitialTotalPages
    /\ discoverRequests = 0
    /\ discoverPc = "returned"

InitDiscover ==
    /\ discoverFn \in DiscoverFns
    /\ discoverMaxPages \in MaxPagesOf(discoverFn)
    /\ discoverPage = 1
    /\ discoverTotalPages = InitialTotalPages
    /\ discoverRequests = 0
    /\ discoverPc = "loop"
    /\ payload = NoResults
    /\ resolverOut = NotRun
    /\ movie = RestMovie
    /\ omdb = OmdbError
    /\ verdict = NotClassified
    /\ impl = "enhanced"
    /\ cmd = "none"
    /\ pc = "off"
    /\ db = FreshDb("enhanced")
    /\ disk = NoFile
    /\ today = 1
    /\ exitStatus = "none"
    /\ everResolved = {}
    /\ failedLookups = {}
    /\ wallArgs = [digital |-> FALSE, start_date |-> 1, end_date |-> 1]
    /\ wallPc = "done"
    /\ wallQueue = <<>>
    /\ wallCurrent = NoCurrent
    /\ wallAttempt = 0
    /\ wallItems = <<>>
    /\ httpFn = "safe_json_get"
    /\ httpPc = "idle"
    /\ httpAttempt = 0
    /\ httpSeen = <<>>
    /\ httpError = NoError
    /\ httpSleeps = <<>>
    /\ startEntry = "new_release_wall"
    /\ startConfig = NoConfigFile
    /\ startEnv = <<>>
    /\ startArg = NoBearer
    /\ startPc = "aborted"
    /\ startKey = ""
    /\ startRequests = 0
    /\ curated = <<>>
    /\ curatorCatalog = <<>>
    /\ dedupeFn = "main"
    /\ dedupeIn = <<>>
    /\ dedupeSeen = {}
    /\ dedupeDone = <<>>
    /\ requestPc = [r \in Requests |-> "done"]
    /\ requestAction = [r \in Requests |-> "approve"]
    /\ requestCur = [r \in Requests |-> <<>>]
    /\ curatedFile = NoCuratedFile

SpecResolver == InitResolver /\ [][NextResolver]_vars

SpecClassifier == InitClassifier /\ [][NextClassifier]_vars

Spec == Init /\ [][NextTracker]_vars

SpecWall == InitWall /\ [][NextWall]_vars

SpecHttp == InitHttp /\ [][NextHttp]_vars

SpecStart == InitStart /\ [][NextStart]_vars

SpecCurator == InitCurator /\ [][NextCurator]_vars
SpecDedupe == InitDedupe /\ [][NextDedupe]_vars
SpecRequest == InitRequest /\ [][NextRequest]_vars
SpecDiscover == InitDiscover /\ [][NextDiscover]_vars

\* a page loop that can take a step takes one: the process runs the loop
\* and nothing else
SpecDiscoverFair == SpecDiscover /\ WF_vars(NextDiscover)

----------------------------------------------------------------------------
\* Claims about the resolvers.

PerTypeDates(result) ==
    {result.premiere_date, result.limited_date,
     result.theatrical_date, result.digital_date} \ {None}

\* C3: for every release-date payload, the enhanced resolver's earliest
\* release is the minimum of the per-type dates it reports (premiere,
\* limited, theatrical, digital), and it is None exactly when none of those
\* per-type dates is present.
C3_EarliestIsMinOfTypes ==
    resolverOut.fn = "enhanced" =>
        LET r == resolverOut.result
        IN  /\ (r.earliest_release = None) <=> (PerTypeDates(r) = {})
            /\ PerTypeDates(r) # {} => r.earliest_release = MinOf(PerTypeDates(r))

\* a payload whose earliest date is not its digital date, with two dated types
C3_Witness ==
    /\ resolverOut.fn = "enhanced"
    /\ Cardinality(PerTypeDates(resolverOut.result)) >= 2
    /\ resolverOut.result.digital_date # None
    /\ resolverOut.result.earliest_release < resolverOut.result.digital_date

\* the payload with every entry of another country removed
RegionOnly(data, region) ==
    [data EXCEPT !.results =
        SelectSeq(data.results, LAMBDA e : e.iso_3166_1 = region)]

HasRegionEntry(data, region) ==
    \E i \in 1..Len(data.results) : data.results[i].iso_3166_1 = region

\* C4: region-restricted resolution depends only on the entries of the
\* requested region.  Every payload gets the result of its own restriction
\* to the region, so two payloads that agree on the region's entries get the
\* same result whatever their other countries hold; and with no entry for
\* the region the result is "no data".
C4_RegionOnly ==
    /\ resolverOut.fn = "basic" =>
           /\ resolverOut.result = GetReleaseInfoBasic(RegionOnly(payload, "US"))
           /\ ~HasRegionEntry(payload, "US") => resolverOut.result = BasicDefault
    /\ resolverOut.fn = "wall" =>
           /\ resolverOut.result =
                  GetUsDigitalDate(RegionOnly(payload, resolverOut.region), resolverOut.region)
           /\ ~HasRegionEntry(payload, resolverOut.region) => resolverOut.result = None

\* a dated digital entry of another country stands before the region's own
C4_Witness ==
    /\ resolverOut.fn \in {"basic", "wall"}
    /\ Len(payload.results) = 2
    /\ payload.results[1].iso_3166_1 = "GB"
    /\ payload.results[2].iso_3166_1 = "US"
    /\ \E i \in 1..Len(payload.results[1].release_dates) :
           /\ payload.results[1].release_dates[i].type = 4
           /\ payload.results[1].release_dates[i].release_date \in Days
    /\ resolverOut.fn = "wall" => resolverOut.region = "US"
    /\ resolverOut.fn = "basic" => ~resolverOut.result.has_digital
    /\ resolverOut.fn = "wall" => resolverOut.result = None

----------------------------------------------------------------------------
\* Claims about the inclusion classifier.

\* the conditions of tiers 4 and 5, as the claim states them
HasReviewSignal(m, data) ==
    m.title # "" /\ data.Response /\
    (data.Metascore # "N/A" \/ data.rotten_tomatoes # "none" \/ data.imdbVotes > ImdbVoteFloor)
CatchAll(m) == m.title # "" /\ ~Falsy(m.release_date)

FirstTier(m, data) ==
    IF m.vote_count >= HighVotes THEN 1
    ELSE IF m.popularity >= TrendingPopularity THEN 2
    ELSE IF m.original_language = "en" /\ m.vote_count >= LowVotes THEN 3
    ELSE IF HasReviewSignal(m, data) THEN 4
    ELSE IF CatchAll(m) THEN 5
    ELSE 0

TierReason(tier) ==
    CASE tier = 1 -> "TMDB popular"
      [] tier = 2 -> "Trending"
      [] tier = 3 -> "English film"
      [] tier = 5 -> "Recent release"
      [] OTHER -> "none"

\* C7: the classifier returns the reason of the first tier, in the order
\* popular / trending / language + minimal activity / has reviews /
\* catch-all, whose condition the record satisfies (so tier 1's when tiers 1
\* and 3 both hold), and it asks the ratings API only when tiers 1 to 3 all
\* fail.
C7_FirstTierWins ==
    verdict # NotClassified =>
        /\ verdict.tier = FirstTier(movie, omdb)
        /\ verdict.include <=> verdict.tier # 0
        /\ verdict.tier \in {1, 2, 3, 5} => Head(verdict.reason) = TierReason(verdict.tier)
        /\ verdict.tier = 4 => verdict.reason # <<>> /\ Head(verdict.reason) \in {"RT", "Meta", "IMDB"}
        /\ verdict.lookups = 1 =>
               movie.vote_count < HighVotes
               /\ movie.popularity < TrendingPopularity
               /\ ~(movie.original_language = "en" /\ movie.vote_count >= LowVotes)

\* a record that satisfies tiers 1 and 3 together and was classified
C7_Witness ==
    /\ verdict # NotClassified
    /\ movie.vote_count >= HighVotes
    /\ movie.original_language = "en"
    /\ verdict.tier = 1
    /\ verdict.lookups = 0

----------------------------------------------------------------------------
\* Claims about the tracking store.

\* the records a reader of the database file sees
Observed(file) == IF file.state = "written" THEN file.doc.movies ELSE <<>>

\* C1: whatever the sequence of runs (bootstrap, add new releases, manual
\* add, provider check, release-date check, save and load), a record that
\* was resolved in a written snapshot is not tracking in any later state of
\* the store, on disk or loaded in a running process; and inside a running
\* process a resolved record stays resolved.
C1_ResolvedNeverTracking ==
    [][/\ \A id \in everResolved :
              /\ id \notin TrackingIds(Observed(disk'))
              /\ pc' # "off" => id \notin TrackingIds(db'.movies)
       /\ (pc # "off" /\ pc' # "off") =>
              ResolvedIds(db.movies) \subseteq ResolvedIds(db'.movies)]_vars

\* a later daily run, about to write its snapshot, holds as resolved a
\* record that an earlier run's snapshot already had resolved
C1_Witness ==
    /\ pc = "dump"
    /\ cmd = "daily"
    /\ \E id \in everResolved :
           /\ db.movies[id].status = "resolved"
           /\ db.movies[id].added_to_db < today

\* the condition the claim gives for "resolved"; no operation of either
\* tracker forces a status by hand
Available(record) ==
    ~Falsy(Get(record, "digital_date", None)) \/ Get(record, "has_providers", FALSE)

\* C2: in every state of the tracking store, loaded or written, a record is
\* resolved if and only if its digital date is present or its provider
\* snapshot is non-empty; in particular no record is resolved with an absent
\* or empty digital date and no providers.
C2_ResolvedIffAvailable ==
    /\ \A id \in DOMAIN db.movies :
           db.movies[id].status = "resolved" <=> Available(db.movies[id])
    /\ \A id \in DOMAIN Observed(disk) :
           Observed(disk)[id].status = "resolved" <=> Available(Observed(disk)[id])

\* the provider snapshot of the specification: rent, buy and stream
SnapshotNonEmpty(answer) ==
    answer.ok /\ \E cat \in {"rent", "buy", "flatrate"} : answer.data[cat] # <<>>

\* C5: a title that is tracking with an empty provider snapshot when a
\* provider check starts, and whose freshly fetched snapshot is non-empty,
\* is resolved after that check with detected_via_providers true and its
\* last_provider_check stamped with the day of the check.
C5_ProvidersResolve ==
    (impl = "enhanced" /\ pc = "check_providers") =>
        \A providers \in [TrackingIds(db.movies) -> ProviderAnswers] :
            LET after == CheckProvidersOp(db, providers, today).movies
            IN  \A id \in TrackingIds(db.movies) :
                    (~db.movies[id].has_providers /\ SnapshotNonEmpty(providers[id])) =>
                        /\ after[id].status = "resolved"
                        /\ Get(after[id], "detected_via_providers", FALSE)
                        /\ after[id].last_provider_check = today

\* a title tracked since the first day without providers has been resolved
\* by the provider check of a later day
C5_Witness ==
    /\ impl = "enhanced"
    /\ pc \in {"check_tmdb", "save"}
    /\ \E id \in DOMAIN db.movies :
           /\ db.movies[id].status = "resolved"
           /\ db.movies[id].detected_via_providers
           /\ Falsy(db.movies[id].digital_date)
           /\ db.movies[id].added_to_db < today
           /\ db.movies[id].last_provider_check = today
           /\ Get(db.movies[id], "digital_detected_date", None) = today

\* what the catalog answers for the other titles of the same run: they
\* are not discovered and every request about them fails, or they are
\* discovered and every request succeeds and shows availability
OtherTitles ==
    {[found |-> FALSE, release |-> RequestFailed, provider |-> RequestFailed],
     [found |-> TRUE, release |-> Answer(TheatricalThenDigital),
      provider |-> Answer(StreamOnly)]}

\* the answers of one run: `answer` for the title, `other` for the rest
ForTitle(id, answer, other) == [i \in Ids |-> IF i = id THEN answer ELSE other]

\* the requests a daily run makes about one title: none if its record is
\* resolved or if it is new and not discovered (the answers are then
\* written as failed, once)
Requested(movies, id, found, release, provider) ==
    \/ id \in TrackingIds(movies)
    \/ id \notin DOMAIN movies /\ found
    \/ release = RequestFailed /\ provider = RequestFailed

\* C6: the daily merge (add new releases, check providers, check release
\* dates, save), run twice on the same day with the same fetch results,
\* leaves after the second run the document of the first run: no record
\* is added twice or changed, and the stats are the same.  The fetch
\* results range over every answer about one title, discovered or not,
\* against either kind of answer about the other titles.
C6_DailyIdempotent ==
    [](pc = "add_new" =>
        \A id \in Ids, found \in BOOLEAN, release \in ReleaseAnswers,
           provider \in ProviderAnswers, others \in OtherTitles, scores \in RtFetches :
            Requested(db.movies, id, found, release, provider) =>
                LET discovered == {i \in Ids : IF i = id THEN found ELSE others.found}
                    releases == ForTitle(id, release, others.release)
                    providers == ForTitle(id, provider, others.provider)
                    once == DailyUpdate(impl, db, discovered, releases, providers,
                                        scores, today)
                    twice == DailyUpdate(impl, once, discovered, releases, providers,
                                         scores, today)
                IN  twice = once)

\* a daily run starts on a store that a run of the same day has written,
\* and some fetch that discovers a title leaves that store as it is
C6_Witness ==
    /\ pc = "add_new"
    /\ db.movies # <<>>
    /\ db.last_update = today
    /\ \E discovered \in SUBSET Ids, releases \in ReleaseFetches,
          providers \in ProviderFetches, scores \in RtFetches :
           /\ discovered # {}
           /\ \E id \in discovered : releases[id].ok
           /\ DailyUpdate(impl, db, discovered, releases, providers, scores, today) = db

\* C8: a save is all-or-nothing: once no process is running (the save has
\* ended, failed, or the process was terminated during it), a database file
\* that held a complete snapshot still holds one, never an empty or partly
\* written document.
C8_SaveAllOrNothing ==
    pc = "off" => ~(disk.state = "truncated" /\ disk.replaced = "written")

\* the release dates of a record
ReleaseDatesOf(record) ==
    [key \in {"premiere_date", "limited_date", "theatrical_date", "digital_date",
              "earliest_release"} |-> Get(record, key, None)]

\* the lookup returned a digital date
ShowsDigitalDate(which, answer) ==
    answer.ok /\ ~Falsy(ReleaseInfo(which, answer).info.digital_date)

\* the re-checks of one daily run on a loaded document
Rechecked(which, doc, releases, providers, day) ==
    IF which = "enhanced"
    THEN CheckTmdbOp(CheckProvidersOp(doc, providers, day).movies, releases, day)
    ELSE CheckTrackingOp(doc.movies, releases, day)

C11_ReloadSaveKeepsDocument ==
    disk.state = "written" =>
        \A day \in today..MaxDay :
            LET saved == WithStats(impl, LoadDatabase(impl, disk), day)
            IN  /\ saved.movies = disk.doc.movies
                /\ saved.stats = disk.doc.stats
                /\ impl = "enhanced" =>
                       saved.last_provider_check = disk.doc.last_provider_check
                /\ [saved EXCEPT !.last_update = disk.doc.last_update] = disk.doc
                /\ saved.last_update = day

\* a run of a later day has loaded a written store that holds a record and
\* is about to save it as it was loaded
C11_Witness ==
    /\ pc = "save"
    /\ disk.state = "written"
    /\ db = disk.doc
    /\ db.movies # <<>>
    /\ db.last_update < today

----------------------------------------------------------------------------
\* Claims about the release wall.

\* C9: in the per-title enrichment loop a failed catalog lookup is caught
\* and only its title skipped: the run goes on to the remaining titles and
\* reaches its end, it never stops with the exception.
C9_BatchNeverAborts == wallPc # "aborted"

----------------------------------------------------------------------------
\* Claims about the HTTP retry wrappers.

\* a timeout, a failed connection, or a 429 or 5xx response
Transient(resp) ==
    \/ resp.exc \in {"Timeout", "ConnectionError"}
    \/ resp.status \in {429, 500, 502, 503, 504}

\* C12: a retry wrapper makes another attempt only after a transient error
\* (a timeout, a failed connection, a 429 or 5xx response): whatever an
\* attempt met before a further attempt was transient, so a 404 response is
\* never followed by another attempt of the same call.
C12_RetryOnlyTransient ==
    \A i \in 1..Len(httpSeen) :
        i < Len(httpSeen) => Transient(httpSeen[i])

----------------------------------------------------------------------------
\* Claims about the start of the entry points.

\* the catalog key the entry point requires is missing: config.yaml has no
\* tmdb_api_key (or does not exist), or TMDB() has neither a bearer argument
\* nor TMDB_BEARER in the environment
KeyMissing ==
    IF startEntry = "scraper_core"
    THEN ~startArg.given /\ "TMDB_BEARER" \notin DOMAIN startEnv
    ELSE ~startConfig.exists \/ "tmdb_api_key" \notin DOMAIN startConfig.mapping

\* C13: when the required catalog key is missing, every entry point aborts
\* at its start: it never gets past the start and never issues a network
\* request.
C13_AbortsBeforeAnyRequest ==
    KeyMissing => (startRequests = 0 /\ startPc \in {"start", "aborted"})

----------------------------------------------------------------------------
\* Further claims about the resolvers.

\* the payload without the release entries whose date string is empty
IsDated(release) == release.release_date # EmptyStr
DatedOnly(data) ==
    [data EXCEPT !.results =
        [i \in 1..Len(data.results) |->
            [data.results[i] EXCEPT !.release_dates = SelectSeq(@, IsDated)]]]

\* C14: a release entry whose date string is missing or empty is dropped by
\* the trackers' resolvers: the result is the one the resolver gives for the
\* payload without such entries, so an empty date is never stored as the
\* theatrical or digital date, never sets has_digital, and never replaces a
\* valid date of the same type.
C14_UndatedEntriesDropped ==
    resolverOut.fn \in {"enhanced", "basic"} =>
        /\ resolverOut.result.theatrical_date # EmptyStr
        /\ resolverOut.result.digital_date # EmptyStr
        /\ resolverOut.result =
               IF resolverOut.fn = "enhanced"
               THEN GetReleaseInfoEnhanced(DatedOnly(payload))
               ELSE GetReleaseInfoBasic(DatedOnly(payload))

\* the release records a tracker resolver considers: every country's for
\* the enhanced resolver, the first US entry's for the basic one
ConsideredEntries(fn, data) ==
    IF fn = "enhanced" THEN Flatten(data.results)
    ELSE LET us == {i \in 1..Len(data.results) : data.results[i].iso_3166_1 = "US"}
         IN  IF us = {} THEN <<>> ELSE data.results[MinOf(us)].release_dates

\* the dates present among the records of exactly one type
DatesOfType(entries, release_type) ==
    {r.release_date : r \in {e \in Range(entries) :
                                e.type = release_type /\ e.release_date # EmptyStr}}

\* the earliest of a set of dates, None if there is none
EarliestOrNone(dates) == IF dates = {} THEN None ELSE MinOf(dates)

\* C15: for each release type a tracker resolver recognizes, the date it
\* reports for that type is the earliest date among the considered records
\* of exactly that type (None if there is none), and has_digital is true
\* exactly when a type-4 date is present.
C15_PerTypeMinimum ==
    resolverOut.fn \in {"enhanced", "basic"} =>
        LET r == resolverOut.result
            entries == ConsideredEntries(resolverOut.fn, payload)
        IN  /\ r.theatrical_date = EarliestOrNone(DatesOfType(entries, 3))
            /\ r.digital_date = EarliestOrNone(DatesOfType(entries, 4))
            /\ resolverOut.fn = "enhanced" =>
                   /\ r.premiere_date = EarliestOrNone(DatesOfType(entries, 1))
                   /\ r.limited_date = EarliestOrNone(DatesOfType(entries, 2))
            /\ r.has_digital <=> DatesOfType(entries, 4) # {}

----------------------------------------------------------------------------
\* Further claims about the inclusion classifier.

\* the record fails tiers 1 to 4: votes and popularity below the thresholds,
\* not English with enough votes, and no review signal found
FailsTiers1To4(m, data) ==
    /\ m.vote_count < HighVotes
    /\ m.popularity < TrendingPopularity
    /\ ~(m.original_language = "en" /\ m.vote_count >= LowVotes)
    /\ ~HasReviewSignal(m, data)

\* C16: a record that fails tiers 1 to 4 is included by the catch-all with
\* the reason "Recent release" (and no review data) if it has a non-empty
\* title and a release date, and is excluded otherwise.
C16_CatchAll ==
    (verdict # NotClassified /\ FailsTiers1To4(movie, omdb)) =>
        IF movie.title # "" /\ movie.release_date \notin {None, EmptyStr}
        THEN /\ verdict.include
             /\ verdict.reason = <<"Recent release">>
             /\ verdict.review_data = <<>>
        ELSE ~verdict.include

\* a French title with a few votes, for which the ratings API answered
\* without any score, has been included as a recent release
C16_Witness ==
    /\ verdict # NotClassified
    /\ movie.original_language = "fr"
    /\ movie.vote_count = LowVotes
    /\ movie.popularity = TrendingPopularity - 1
    /\ omdb.Response
    /\ FailsTiers1To4(movie, omdb)
    /\ verdict.include
    /\ verdict.reason = <<"Recent release">>

----------------------------------------------------------------------------
\* Further claims about the tracking store.

\* the counts derived from a movies map
HowMany(movies, status) ==
    Cardinality({id \in DOMAIN movies : movies[id].status = status})
DerivedStats(which, movies) ==
    IF which = "enhanced"
    THEN [total_tracked |-> Cardinality(DOMAIN movies),
          resolved |-> HowMany(movies, "resolved"),
          still_tracking |-> HowMany(movies, "tracking"),
          provider_detected |->
              Cardinality({id \in DOMAIN movies :
                              "detected_via_providers" \in DOMAIN movies[id]
                              /\ movies[id].detected_via_providers})]
    ELSE [total_tracked |-> Cardinality(DOMAIN movies),
          resolved |-> HowMany(movies, "resolved"),
          still_tracking |-> HowMany(movies, "tracking")]

\* C17: after every save_database the stats of the document, as it is
\* handed to json.dump and as it is on disk, are the counts derived from
\* its movies map: the number of records, of resolved and of tracking
\* records, and of records detected via providers; no count is carried over
\* from an earlier save.
C17_StatsDerived ==
    /\ pc = "dump" => db.stats = DerivedStats(impl, db.movies)
    /\ disk.state = "written" => disk.doc.stats = DerivedStats(impl, disk.doc.movies)

\* the store has been saved again on a later day, and still counts its one
\* record once, resolved
C17_Witness ==
    /\ disk.state = "written"
    /\ disk.doc.last_update > 1
    /\ \E id \in everResolved : disk.doc.movies[id].added_to_db < disk.doc.last_update
    /\ disk.doc.stats.total_tracked = Cardinality(DOMAIN disk.doc.movies)
    /\ disk.doc.stats.resolved >= 1
    /\ disk.doc.stats.still_tracking = 0

----------------------------------------------------------------------------
\* Claims about the curator.

\* C18: after any sequence of curate and bulk requests, every value of the
\* persisted curated-selection map is one of "pending", "approve" and
\* "reject", and a title id absent from the map reads as "pending".
C18_CuratedValues ==
    /\ \A mid \in DOMAIN curated : curated[mid] \in {"pending", "approve", "reject"}
    /\ \A mid \in CuratorIds \ DOMAIN curated : MovieStatus(curated, mid) = "pending"

----------------------------------------------------------------------------
\* Claims about provider availability.

\* the region's block lists providers under ads or free and nowhere else
OnlyAdsOrFree(answer) ==
    /\ answer.ok
    /\ answer.data.rent = <<>> /\ answer.data.buy = <<>> /\ answer.data.flatrate = <<>>
    /\ answer.data.ads # <<>> \/ answer.data.free # <<>>

\* C19: a title whose regional provider payload lists providers only under
\* ads or free counts as available: the provider check of a tracking title
\* that fetches such a payload records has_providers true and resolves it.
C19_AdsOrFreeCountsAsAvailable ==
    (impl = "enhanced" /\ pc = "check_providers") =>
        \A providers \in [TrackingIds(db.movies) -> ProviderAnswers] :
            \A id \in TrackingIds(db.movies) :
                OnlyAdsOrFree(providers[id]) =>
                    LET after == CheckProvidersOp(db, providers, today).movies[id]
                    IN  after.has_providers /\ after.status = "resolved"

----------------------------------------------------------------------------
\* Further claims about the release wall.

\* the dated digital or TV (type 4 or 6) records of the region's entries
RegionDigitalDates(data, region) ==
    {d.release_date :
        d \in UNION {{r \in Range(data.results[i].release_dates) :
                         r.type \in {4, 6} /\ r.release_date # EmptyStr} :
                     i \in {j \in 1..Len(data.results) :
                               data.results[j].iso_3166_1 = region}}}

\* a dated record of type 4, in any country's entry
HasType4Date(data) ==
    \E i \in 1..Len(data.results) :
        \E r \in Range(data.results[i].release_dates) :
            r.type = 4 /\ r.release_date # EmptyStr

\* C20: in windowed mode (--digital) a title gets past the release-date
\* test, and is emitted, only if the region has a dated type-4 or type-6
\* record and the earliest such date lies in [start_date, end_date], ends
\* included; every emitted item then carries a date of the window.  In
\* comprehensive mode the enhanced resolver's has_digital, for the response
\* just received, is true exactly when a type-4 date is present.
C20_WindowedEmission ==
    /\ (wallArgs.digital /\ wallPc \in {"providers", "external_ids", "videos"}) =>
           LET dates == RegionDigitalDates(wallCurrent.release_dates, "US")
           IN  /\ dates # {}
               /\ wallArgs.start_date <= MinOf(dates)
               /\ MinOf(dates) <= wallArgs.end_date
               /\ wallCurrent.us_digital_date = MinOf(dates)
    /\ wallArgs.digital =>
           \A i \in 1..Len(wallItems) :
               /\ wallArgs.start_date <= wallItems[i].release_date
               /\ wallItems[i].release_date <= wallArgs.end_date
    /\ wallPc = "providers" =>
           (GetReleaseInfoEnhanced(wallCurrent.release_dates).has_digital
               <=> HasType4Date(wallCurrent.release_dates))

\* a windowed run whose window is a single day has emitted a title whose
\* earliest digital-or-TV date is that day, and is at a title whose TV date
\* is that day too
C20_Witness ==
    /\ wallArgs.digital
    /\ wallArgs.start_date = wallArgs.end_date
    /\ wallItems # <<>>
    /\ wallItems[1].release_date = wallArgs.start_date
    /\ wallPc = "videos"
    /\ wallCurrent.release_dates = TvThenDigital
    /\ wallCurrent.us_digital_date = wallArgs.end_date

----------------------------------------------------------------------------
\* Claims about what a run leaves alone in the tracking store.

\* C21: every operation of a run (bootstrap, add new releases, manual add,
\* provider check, release-date check, save) leaves each record that is
\* already resolved as it is, in every field: from one step of a process to
\* the next, from the file to the process that loads it, and from the
\* process to the file it writes.
C21_ResolvedUnchanged ==
    [][/\ (pc # "off" /\ pc' # "off") =>
              \A id \in ResolvedIds(db.movies) :
                  id \in DOMAIN db'.movies /\ db'.movies[id] = db.movies[id]
       /\ (pc = "off" /\ pc' # "off") =>
              \A id \in ResolvedIds(Observed(disk)) :
                  id \in DOMAIN db'.movies /\ db'.movies[id] = Observed(disk)[id]
       /\ (disk' # disk /\ disk'.state = "written") =>
              \A id \in ResolvedIds(db.movies) :
                  disk'.doc.movies[id] = db.movies[id]]_vars

\* a daily run of a later day is past its add and provider-check steps, and
\* holds a record resolved by an earlier run as the file has it
C21_Witness ==
    /\ pc = "check_tmdb"
    /\ cmd = "daily"
    /\ \E id \in ResolvedIds(Observed(disk)) :
           /\ db.movies[id] = Observed(disk)[id]
           /\ db.movies[id].added_to_db < today

\* C22: when a daily run re-checks a tracking record and neither the
\* release data nor the provider snapshot shows availability (the record is
\* still tracking after the checks), only the date stamps change: every
\* field the record had keeps its value, last_checked is today and, in the
\* enhanced tracker, last_provider_check is today.
C22_OnlyStampsChange ==
    (pc = "save" /\ cmd = "daily") =>
        \A id \in TrackingIds(Observed(disk)) \cap TrackingIds(db.movies) :
            LET before == Observed(disk)[id]
                after == db.movies[id]
            IN  /\ Get(after, "last_checked", None) = today
                /\ impl = "enhanced" => Get(after, "last_provider_check", None) = today
                /\ \A key \in DOMAIN before \ {"last_checked", "last_provider_check"} :
                       key \in DOMAIN after /\ after[key] = before[key]

\* C23: the ids of the tracking store only grow and each id keeps its
\* record's added_to_db date: no step of a process removes or re-adds a
\* record, a process starts from every record of the file it loads, and the
\* snapshot it writes holds every record it has.
C23_IdsOnlyGrow ==
    [][/\ (pc # "off" /\ pc' # "off") =>
              \A id \in DOMAIN db.movies :
                  /\ id \in DOMAIN db'.movies
                  /\ db'.movies[id].added_to_db = db.movies[id].added_to_db
       /\ (pc = "off" /\ pc' # "off") =>
              \A id \in DOMAIN Observed(disk) :
                  /\ id \in DOMAIN db'.movies
                  /\ db'.movies[id].added_to_db = Observed(disk)[id].added_to_db
       /\ (disk' # disk /\ disk'.state = "written") =>
              \A id \in DOMAIN db.movies :
                  /\ id \in DOMAIN disk'.doc.movies
                  /\ disk'.doc.movies[id].added_to_db = db.movies[id].added_to_db]_vars

\* a bootstrap or daily run of a later day has run its add step over a store
\* that already held a record, and the record has the date of the earlier day
C23_Witness ==
    /\ pc \in {"save", "check_providers", "check_tracking"}
    /\ cmd \in {"bootstrap", "daily"}
    /\ \E id \in DOMAIN Observed(disk) :
           /\ id \in DOMAIN db.movies
           /\ db.movies[id].added_to_db < today

----------------------------------------------------------------------------
\* Further claims about the HTTP retry wrappers.

AttemptFailed(resp) == AttemptError(httpFn, resp) # NoError

\* the sleeps of the except branch, in order
RetrySleeps == SelectSeq(httpSleeps, LAMBDA sleep : sleep.why = "retry")

BaseDelay == IF httpFn = "safe_json_get" THEN SafeBackoff ELSE DEFAULT_SLEEP

\* C24: a call of a retry wrapper makes at most 3 attempts; an attempt that
\* succeeds is the last one and the call returns its decoded body; after
\* the k-th failed attempt that leaves another attempt the wrapper sleeps k
\* times its base delay; and a call whose 3 attempts all failed has raised
\* to its caller, while no call returns without a decoded body.
C24_BoundedRetry ==
    /\ Len(httpSeen) <= 3
    /\ httpAttempt <= 3
    /\ \A i \in 1..Len(httpSeen) : i < Len(httpSeen) => AttemptFailed(httpSeen[i])
    /\ httpPc = "returned" <=>
           (httpSeen # <<>> /\ ~AttemptFailed(httpSeen[Len(httpSeen)]))
    /\ httpPc = "returned" =>
           /\ httpSeen[Len(httpSeen)].json
           /\ httpSeen[Len(httpSeen)].status = 200
           /\ httpError = NoError
    /\ httpPc = "raised" <=>
           (Len(httpSeen) = 3 /\ \A i \in 1..3 : AttemptFailed(httpSeen[i]))
    /\ httpPc = "raised" => httpError # NoError
    /\ Len(RetrySleeps) =
           Cardinality({i \in 1..Len(httpSeen) : i < 3 /\ AttemptFailed(httpSeen[i])})
    /\ \A k \in 1..Len(RetrySleeps) :
           RetrySleeps[k].delay = k * BaseDelay /\ RetrySleeps[k].delay > 0

\* three attempts failed, the wrapper slept twice between them and raised
C24_Witness ==
    /\ httpPc = "raised"
    /\ Len(httpSeen) = 3
    /\ Len(RetrySleeps) = 2
    /\ RetrySleeps[2].delay = 2 * RetrySleeps[1].delay

----------------------------------------------------------------------------
\* Further claims about the inclusion reason.

\* C25: a classified record is included exactly when it carries a
\* non-empty inclusion reason, whichever tier fired; in particular tier 4
\* gives a non-empty reason for every non-empty review payload.
C25_IncludedHasReason ==
    verdict # NotClassified =>
        /\ verdict.include <=> verdict.reason # <<>>
        /\ verdict.review_data # <<>> => (verdict.tier = 4 /\ verdict.reason # <<>>)
        /\ verdict.tier = 4 => verdict.review_data # <<>>

\* tier 4 fired on a payload that holds the IMDb votes only
C25_Witness ==
    /\ verdict # NotClassified
    /\ verdict.include
    /\ verdict.tier = 4
    /\ verdict.review_data = <<"imdb_votes", "imdb_rating">>
    /\ verdict.reason = <<"IMDB">>

----------------------------------------------------------------------------
\* Claims about the deduplication of discovered records.

----------------------------------------------------------------------------
\* Further claims about the provider fields of the tracking store.

NoProvidersOnRecord(record) ==
    /\ ~Get(record, "has_providers", FALSE)
    /\ ~Get(record, "has_providers_previously", FALSE)

\* C27: starting from an empty store, a record whose status is tracking,
\* in a running process or in the written file, has has_providers false and
\* has_providers_previously absent or false; so a record the provider
\* check has just stamped with a non-empty snapshot is not tracking.
C27_TrackingHasNoProviders ==
    /\ pc # "off" =>
           \A id \in TrackingIds(db.movies) : NoProvidersOnRecord(db.movies[id])
    /\ \A id \in TrackingIds(Observed(disk)) : NoProvidersOnRecord(Observed(disk)[id])

\* the provider check of this run has passed over a record, found no
\* providers and left it tracking
C27_Witness ==
    /\ pc \in {"check_tmdb", "save"}
    /\ \E id \in TrackingIds(db.movies) :
           /\ "has_providers_previously" \in DOMAIN db.movies[id]
           /\ db.movies[id].last_provider_check = today
           /\ db.movies[id].added_to_db < today

\* C28: a title whose fetched data shows, at the moment it becomes
\* resolved, both a digital release date and a non-empty provider snapshot
\* gets on a daily re-check the provenance and digital date it would get on
\* creation: detected_via_providers is false and digital_date is recorded.
C28_SameProvenance ==
    (impl = "enhanced" /\ cmd = "daily" /\ pc = "check_providers") =>
        \A id \in TrackingIds(db.movies), release \in ReleaseAnswers,
           provider \in ProviderAnswers, others \in OtherTitles :
            (ShowsDigitalDate(impl, release) /\ SnapshotNonEmpty(provider)) =>
                LET after == Rechecked(impl, db, ForTitle(id, release, others.release),
                                       ForTitle(id, provider, others.provider), today)[id]
                    created == EnhancedRecord(id, ReleaseInfo(impl, release).info,
                                              GetJustwatchProviders(provider), None, today)
                IN  /\ after.status = "resolved" /\ created.status = "resolved"
                    /\ Get(after, "detected_via_providers", FALSE)
                           = created.detected_via_providers
                    /\ Get(after, "digital_date", None) = created.digital_date
                    /\ ~Get(after, "detected_via_providers", FALSE)
                    /\ ~Falsy(Get(after, "digital_date", None))

----------------------------------------------------------------------------
\* Claims about concurrent curate requests.

\* C29: when two curate requests for different title ids are handled at
\* the same time, then once both have completed the curated-selection file
\* holds both decisions, in every interleaving.
C29_BothDecisionsKept ==
    (\A r \in Requests : requestPc[r] = "done") =>
        /\ curatedFile.state = "written"
        /\ \A r \in Requests :
               Get(curatedFile.doc, r, "pending") = requestAction[r]

----------------------------------------------------------------------------
\* Claims about the paginated discovery loops.

\* C30: every paginated discovery loop requests at most its page cap
\* (max_pages, or 500 in the bootstrap) and terminates, whatever the
\* catalog answers: failed requests, empty pages, or a reported total_pages
\* above the cap.
C30_DiscoveryTerminates ==
    /\ [](discoverRequests <= discoverMaxPages)
    /\ <>(discoverPc # "loop")

\* the bootstrap has requested page after page up to its cap of 500 and
\* has returned
C30_Witness ==
    /\ discoverFn = "bootstrap_database"
    /\ discoverPc = "returned"
    /\ discoverRequests = BootstrapCap
    /\ discoverPage = BootstrapCap

====
